---- MODULE Spec2Model ----
(***************************************************************************)
(* Team partitioner (team_service::form_teams) and rating engine           *)
(* (match_service) of the Discord team bot.                                *)
(*                                                                         *)
(* Numbers.  The program computes in IEEE doubles.  Here a double is a     *)
(* record [k, v]: k = "fin" with an integer v, or k = "inf" (+infinity),   *)
(* or k = "nan".  Ratings and rating deltas are counted in hundredths of   *)
(* a point, probabilities in percent; std::pow is tabulated.               *)
(***************************************************************************)
EXTENDS Integers, Sequences, FiniteSets, TLC

\* ------------------------------------------------------------------ bounds
MaxHist == 2       \* longest history
MaxN == 4          \* most participants handed to form_teams
MaxT == 2          \* largest team count handed to form_teams
MaxRating == 3     \* participant ratings 0..MaxRating (whole points)

\* ------------------------------------------------------- program constants
ELO_SCALE == 400
kMinPower == 0
k_factor == 4

\* ids that may be put on the roster, and the timestamps of the records
Ids == {1, 2}
Whens == {1, 2}

\* --------------------------------------------------------------- doubles
Fin(v) == [k |-> "fin", v |-> v]
Inf == [k |-> "inf", v |-> 0]
NaN == [k |-> "nan", v |-> 0]

\* std::isfinite
IsFinite(x) == x.k = "fin"

\* x + y for operands that are never -infinity
DAdd(x, y) ==
  IF x.k = "nan" \/ y.k = "nan" THEN NaN
  ELSE IF x.k = "inf" \/ y.k = "inf" THEN Inf
  ELSE Fin(x.v + y.v)

\* integer quotient rounded toward zero
QuotZ(a, b) == IF a >= 0 THEN a \div b ELSE -((-a) \div b)

\* value of a step table at x: the entry of the last threshold <= x
RECURSIVE TabAt(_, _, _)
TabAt(tab, x, i) ==
  IF i = 1 \/ tab[i][1] <= x THEN tab[i][2] ELSE TabAt(tab, x, i - 1)

\* 100 / (1 + 10^(d/ELO_SCALE)) for a rating gap d >= 0 in points, tabulated
EloTable ==
  << <<0, 50>>, <<ELO_SCALE \div 8, 43>>, <<ELO_SCALE \div 4, 36>>,
     <<(3 * ELO_SCALE) \div 8, 30>>, <<ELO_SCALE \div 2, 24>>,
     <<(5 * ELO_SCALE) \div 8, 19>>, <<(3 * ELO_SCALE) \div 4, 15>>,
     <<(7 * ELO_SCALE) \div 8, 12>>, <<ELO_SCALE, 9>>,
     <<(5 * ELO_SCALE) \div 4, 5>>, <<(3 * ELO_SCALE) \div 2, 3>>,
     <<(7 * ELO_SCALE) \div 4, 2>>, <<2 * ELO_SCALE, 1>>,
     <<3 * ELO_SCALE, 0>> >>

\* expected_vs(Ra, Rb) in percent: 1 / (1 + pow(10, (Rb - Ra) / ELO_SCALE))
expected_vs(Ra, Rb) ==
  IF Ra.k = "nan" \/ Rb.k = "nan" THEN NaN
  ELSE IF Ra.k = "inf" /\ Rb.k = "inf" THEN NaN      \* inf - inf
  ELSE IF Rb.k = "inf" THEN Fin(0)                    \* 1 / (1 + inf)
  ELSE IF Ra.k = "inf" THEN Fin(100)                  \* 1 / (1 + 0)
  ELSE LET d == Rb.v - Ra.v IN
       IF d >= 0 THEN Fin(TabAt(EloTable, d \div 100, Len(EloTable)))
       ELSE Fin(100 - TabAt(EloTable, (-d) \div 100, Len(EloTable)))

\* pow(r, alpha) * 100, alpha = 0.6, r = max(point, kWeightFloor), tabulated
\* over r in hundredths of a point
PowPosTable ==
  << <<0, 1>>, <<1, 6>>, <<10, 25>>, <<100, 100>>, <<1000, 398>>,
     <<10000, 1585>>, <<50000, 4163>>, <<100000, 6310>>, <<120000, 7038>>,
     <<140000, 7721>>, <<160000, 8364>>, <<200000, 9564>>, <<300000, 12198>> >>

\* pow(r, -alpha) * 500, tabulated the same way
PowNegTable ==
  << <<0, 1990536>>, <<1, 7924>>, <<10, 1991>>, <<100, 500>>, <<1000, 126>>,
     <<10000, 32>>, <<50000, 12>>, <<100000, 8>>, <<120000, 7>>,
     <<140000, 6>>, <<200000, 5>>, <<300000, 4>> >>

\* std::pow(r, is_winning_team ? -alpha : alpha)
PowAlpha(r, is_winning_team) ==
  IF r.k = "nan" THEN NaN
  ELSE IF r.k = "inf" THEN (IF is_winning_team THEN Fin(0) ELSE Inf)
  ELSE IF is_winning_team THEN Fin(TabAt(PowNegTable, r.v, Len(PowNegTable)))
  ELSE Fin(TabAt(PowPosTable, r.v, Len(PowPosTable)))

\* ------------------------------------------------------------ data model
\* user: point, base_point, wins, games (id is the key in users_)
NewUser(point) == [point |-> point, base_point |-> point, wins |-> 0, games |-> 0]

\* match_record: when, teams (each team the sequence of its members' ids),
\* winning_teams (0-based team indices)
MatchRecord(when, teams, winning_teams) ==
  [when |-> when, teams |-> teams, winning_teams |-> winning_teams]

Ok(us) == [ok |-> TRUE, users |-> us]
Err(us, e) == [ok |-> FALSE, users |-> us, error |-> e]

\* ---------------------------------------------------- apply_match_effect
\* sum of the current points of the members found on the roster
RECURSIVE TeamSum(_, _, _)
TeamSum(us, members, k) ==
  IF k > Len(members) THEN Fin(0)
  ELSE LET rest == TeamSum(us, members, k + 1) IN
       IF members[k] \in DOMAIN us THEN DAdd(us[members[k]].point, rest) ELSE rest

\* winset.contains(i), i a 0-based team index
InWinset(winners, i) == \E n \in 1..Len(winners) : winners[n] = i

\* ActualScore with the tie test left out
ActualScoreWinOnly(i_win, j_win) ==
  IF i_win THEN 100 ELSE IF j_win THEN 0 ELSE 50

\* actual score of team i against team j, in percent
ActualScore(i_win, j_win) ==
  IF i_win /\ ~j_win THEN 100 ELSE IF ~i_win /\ j_win THEN 0 ELSE 50

\* k_factor * (S - E), in hundredths of a point
DeltaOf(S, E) == IF E.k = "nan" THEN NaN ELSE Fin(k_factor * (S - E.v))

\* OneMinus without the complement: Ej = Ei
SameExpectation(E) == E

\* Ej = 1.0 - Ei
OneMinus(E) == IF E.k = "nan" THEN NaN ELSE Fin(100 - E.v)

\* the pairwise loop: team_delta after the pairs from (i, j) on (1-based)
RECURSIVE PairwiseDeltas(_, _, _, _, _)
PairwiseDeltas(team_rating, winners, delta, i, j) ==
  LET N == Len(team_rating) IN
  IF i > N THEN delta
  ELSE IF j > N THEN PairwiseDeltas(team_rating, winners, delta, i + 1, i + 2)
  ELSE LET Ei == expected_vs(team_rating[i], team_rating[j])
           Ej == OneMinus(Ei)
           i_win == InWinset(winners, i - 1)
           j_win == InWinset(winners, j - 1)
           di == DeltaOf(ActualScore(i_win, j_win), Ei)
           dj == DeltaOf(ActualScore(j_win, i_win), Ej)
           nd == [delta EXCEPT ![i] = DAdd(@, di), ![j] = DAdd(@, dj)]
       IN PairwiseDeltas(team_rating, winners, nd, i, j + 1)

\* td * (num / den) for a finite ratio
DMulRatio(td, num, den) ==
  IF td.k = "nan" THEN NaN ELSE Fin(QuotZ(td.v * num, den))

\* it->second.point = std::max(kMinPower, np)
WritePoint(us, id, np) ==
  [us EXCEPT ![id].point = IF np.v < kMinPower THEN Fin(kMinPower) ELSE np]

\* the member loop of one team: np = point + td * num / den, written in
\* place; stops at the first non-finite np (num is the member's weight)
RECURSIVE WriteMembers(_, _, _, _, _, _)
WriteMembers(us, members, td, nums, den, k) ==
  IF k > Len(members) THEN Ok(us)
  ELSE IF members[k] \notin DOMAIN us
       THEN WriteMembers(us, members, td, nums, den, k + 1)
  ELSE LET np == DAdd(us[members[k]].point, DMulRatio(td, nums[k], den)) IN
       IF ~IsFinite(np) THEN Err(us, "Numerical instability (NaN/Inf)")
       ELSE WriteMembers(WritePoint(us, members[k], np), members, td, nums, den, k + 1)

\* the weight of each member, or <<>> followed by nothing when one weight
\* is not finite: result [ok, weights]
RECURSIVE MemberWeights(_, _, _, _)
MemberWeights(us, members, is_winning_team, k) ==
  IF k > Len(members) THEN [ok |-> TRUE, weights |-> <<>>]
  ELSE LET r == IF members[k] \in DOMAIN us THEN us[members[k]].point ELSE Fin(0)
           wi == PowAlpha(r, is_winning_team)
       IN IF ~IsFinite(wi) THEN [ok |-> FALSE, weights |-> <<>>]
          ELSE LET rest == MemberWeights(us, members, is_winning_team, k + 1) IN
               IF rest.ok THEN [ok |-> TRUE, weights |-> <<wi.v>> \o rest.weights]
               ELSE rest

RECURSIVE SumSeq(_, _)
SumSeq(s, k) == IF k > Len(s) THEN 0 ELSE s[k] + SumSeq(s, k + 1)

\* one iteration of the distribution loop, for team ti
DistributeTeam(us, members, td, Ts) ==
  IF members = <<>> THEN Ok(us)
  ELSE IF td = Fin(0) THEN Ok(us)
  ELSE IF Ts.k = "fin" /\ Ts.v <= 0
       THEN WriteMembers(us, members, td, [k \in 1..Len(members) |-> 1], Len(members), 1)
  ELSE LET is_winning_team == td.k = "fin" /\ td.v > 0
           mw == MemberWeights(us, members, is_winning_team, 1)
           W == SumSeq(mw.weights, 1)
       IN IF ~mw.ok THEN Err(us, "Numerical instability (NaN/Inf)")
          ELSE IF ~(W > 0) THEN Err(us, "Weight sum abnormal (<=0)")
          ELSE WriteMembers(us, members, td, mw.weights, W, 1)

\* the distribution loop over the teams, with its early returns
RECURSIVE DistributeDeltas(_, _, _, _, _)
DistributeDeltas(us, teams, delta, sums, ti) ==
  IF ti > Len(teams) THEN Ok(us)
  ELSE LET r == DistributeTeam(us, teams[ti], delta[ti], sums[ti]) IN
       IF ~r.ok THEN r
       ELSE DistributeDeltas(r.users, teams, delta, sums, ti + 1)

\* ids of the members of the winning teams
winner_ids(teams, winners) ==
  UNION {{teams[winners[n] + 1][k] : k \in 1..Len(teams[winners[n] + 1])} :
         n \in 1..Len(winners)}

\* CountMembers with games counted for the members that did not win only
RECURSIVE CountMembersEitherOr(_, _, _, _)
CountMembersEitherOr(us, members, wids, k) ==
  IF k > Len(members) THEN us
  ELSE IF members[k] \notin DOMAIN us
       THEN CountMembersEitherOr(us, members, wids, k + 1)
  ELSE LET id == members[k]
           u2 == IF id \in wids THEN [us EXCEPT ![id].wins = @ + 1]
                 ELSE [us EXCEPT ![id].games = @ + 1]
       IN CountMembersEitherOr(u2, members, wids, k + 1)

\* the counter loop over the members of one team
RECURSIVE CountMembers(_, _, _, _)
CountMembers(us, members, wids, k) ==
  IF k > Len(members) THEN us
  ELSE IF members[k] \notin DOMAIN us THEN CountMembers(us, members, wids, k + 1)
  ELSE LET id == members[k]
           u1 == [us EXCEPT ![id].games = @ + 1]
           u2 == IF id \in wids THEN [u1 EXCEPT ![id].wins = @ + 1] ELSE u1
       IN CountMembers(u2, members, wids, k + 1)

RECURSIVE CountTeams(_, _, _, _)
CountTeams(us, teams, wids, ti) ==
  IF ti > Len(teams) THEN us
  ELSE CountTeams(CountMembers(us, teams[ti], wids, 1), teams, wids, ti + 1)

ValidWinners(teams, winners) ==
  \A n \in 1..Len(winners) : winners[n] >= 0 /\ winners[n] < Len(teams)

team_sum(us, teams) == [i \in 1..Len(teams) |-> TeamSum(us, teams[i], 1)]

team_delta(us, teams, winners) ==
  PairwiseDeltas(team_sum(us, teams), winners,
                 [i \in 1..Len(teams) |-> Fin(0)], 1, 2)

\* apply_match_effect with the winner indices looked at after the counters
apply_validate_late(us, teams, winners) ==
  IF teams = <<>> THEN Err(us, "teams_must_positive")
  ELSE IF ~ValidWinners(teams, winners)
  THEN Err(CountTeams(us, teams, {}, 1), "Invalid winner index")
  ELSE LET d == DistributeDeltas(us, teams, team_delta(us, teams, winners),
                                 team_sum(us, teams), 1)
       IN IF ~d.ok THEN d
          ELSE Ok(CountTeams(d.users, teams, winner_ids(teams, winners), 1))

\* apply_match_effect(teams, winners) on roster us: [ok, users] and, when it
\* fails, the error text
apply_match_effect(us, teams, winners) ==
  IF teams = <<>> THEN Err(us, "teams_must_positive")
  ELSE IF ~ValidWinners(teams, winners) THEN Err(us, "Invalid winner index")
  ELSE LET d == DistributeDeltas(us, teams, team_delta(us, teams, winners),
                                 team_sum(us, teams), 1)
       IN IF ~d.ok THEN d
          ELSE Ok(CountTeams(d.users, teams, winner_ids(teams, winners), 1))

\* ------------------------------------------------------ recompute_ratings
\* the reset loop: every user back to base_point, wins = games = 0
RECURSIVE ResetFrom(_, _)
ResetFrom(us, ids) ==
  IF ids = {} THEN us
  ELSE LET id == CHOOSE x \in ids : TRUE IN
       ResetFrom([us EXCEPT ![id] = NewUser(us[id].base_point)], ids \ {id})

\* ResetUsers that restores the points and keeps the counters
RECURSIVE ResetPointsFrom(_, _)
ResetPointsFrom(us, ids) ==
  IF ids = {} THEN us
  ELSE LET id == CHOOSE x \in ids : TRUE IN
       ResetPointsFrom([us EXCEPT ![id].point = us[id].base_point], ids \ {id})

ResetPointsOnly(us) == ResetPointsFrom(us, DOMAIN us)

ResetUsers(us) == ResetFrom(us, DOMAIN us)

\* std::stable_sort of the index list by history_[a].when < history_[b].when,
\* as an insertion sort: x goes after the last element not greater than it
RECURSIVE InsertByWhen(_, _, _)
InsertByWhen(h, sorted, x) ==
  IF sorted = <<>> THEN <<x>>
  ELSE LET last_ == sorted[Len(sorted)] IN
       IF h[x].when < h[last_].when
       THEN InsertByWhen(h, SubSeq(sorted, 1, Len(sorted) - 1), x) \o <<last_>>
       ELSE sorted \o <<x>>

RECURSIVE ChronoFrom(_, _, _)
ChronoFrom(h, sorted, i) ==
  IF i > Len(h) THEN sorted ELSE ChronoFrom(h, InsertByWhen(h, sorted, i), i + 1)

\* ChronologicalOrder without the sort: the records in history order
InsertionOrder(h) == [i \in 1..Len(h) |-> i]

\* the replay order: 1-based history indices in chronological order
ChronologicalOrder(h) == ChronoFrom(h, <<>>, 1)

\* the replay loop from position n of order; calls is the list of the
\* apply_match_effect calls made so far: result [ok, users, calls]
RECURSIVE Replay(_, _, _, _, _)
Replay(us, h, order, n, calls) ==
  IF n > Len(order) THEN [ok |-> TRUE, users |-> us, calls |-> calls]
  ELSE LET mr == h[order[n]]
           res == apply_match_effect(us, mr.teams, mr.winning_teams)
           call == [idx |-> order[n], before |-> us, after |-> res.users,
                    ok |-> res.ok,
                    error |-> IF res.ok THEN "none" ELSE res.error]
       IN IF ~res.ok
          THEN [ok |-> FALSE, users |-> res.users, calls |-> Append(calls, call)]
          ELSE Replay(res.users, h, order, n + 1, Append(calls, call))

\* recompute_ratings on roster us and history h: [ok, users, calls]
recompute_ratings(us, h) ==
  Replay(ResetUsers(us), h, ChronologicalOrder(h), 1, <<>>)

\* ------------------------------------------------ match_service, as state
VARIABLES
  users_,      \* match_service::users_ : id -> user
  history_,    \* match_service::history_ : sequence of match_record
  last         \* the last call: its name, its result, the roster it started
               \* from and the apply_match_effect calls it made

\* the locals of one form_teams call (team_service.cpp)
VARIABLES
  participants,  \* the input span: participant i has rating participants[i]
  num_teams,     \* config.num_teams
  pc,            \* where the call is
  players,       \* the shuffled and sorted copy: sequence of [id, point]
  best_asg,      \* team (0-based) of players[k], -1 when unset
  best_spread,   \* current upper bound
  gk,            \* greedy: number of players placed
  cur_asg,       \* dfs: current assignment
  totals,        \* greedy / dfs: running team totals
  counts,        \* dfs: running team sizes
  dk,            \* dfs: argument k of the call being entered
  stack,         \* dfs: the open calls, each [k, order, i]
  result,        \* the returned value: [ok, teams] or [ok, error]
  seed,          \* config.seed
  ndraw,         \* number of draws taken from the generator, counted when
                 \* it was seeded with config.seed
  run,           \* 1 in the first call, 2 when the call is made again
  first          \* the value the first call returned

\* the handlers (interaction_handler.cpp, command_handler.cpp)
VARIABLES
  sess,          \* the panel_session: num_teams, selected_users, formed_teams
  assign_ids,    \* handle_assign: the ids of its local `participants`
  th,            \* the position of each event-handling thread
  overlap        \* whether a thread has touched the roster or the history
                 \* while another one was inside a mutation

\* the session manager (session_manager.cpp) and the event being handled
VARIABLES
  sessions_,     \* session_manager::sessions_ : panel id -> panel_session
  issued,        \* number of tokens generate_token has handed out
  posted,        \* the panel messages in the channel: panel id -> the kind
                 \* of panel it was posted as, and whether it still is one
  clock,         \* std::chrono::steady_clock::now()
  reply,         \* the reply sent to the last event or command
  ref            \* the panel id behind the handler's `panel_session &sess`,
                 \* 0 when no handler holds one

mvars == <<sessions_, issued, posted, clock, reply, ref>>

hvars == <<sess, assign_ids, th, overlap, mvars>>

fvars == <<participants, num_teams, pc, players, best_asg, best_spread, gk,
           cur_asg, totals, counts, dk, stack, result, seed, ndraw, run, first>>

\* the configuration of a call and its repetition
callvars == <<seed, run, first>>

vars == <<users_, history_, last, participants, num_teams, pc, players,
          best_asg, best_spread, gk, cur_asg, totals, counts, dk, stack,
          result, seed, ndraw, run, first, sess, assign_ids, th, overlap,
          sessions_, issued, posted, clock, reply, ref>>

\* everything but the locals of a form_teams call
svars == <<users_, history_, last, hvars>>

\* inputs of the calls
PointInputs == {Fin(0), Fin(100000), Inf}
MatchTeams == {<<>>, <<<<1>>, <<2>>>>, <<<<1, 2>>, <<3>>, <<1>>>>}
WinnerInputs == {<<>>, <<0>>, <<0, 1>>, <<3>>, <<-1>>}

NoCall == [op |-> "none", ok |-> TRUE, users |-> <<>>, calls |-> <<>>]
Call(op, ok, calls) == [op |-> op, ok |-> ok, users |-> users_, calls |-> calls]

\* the result of a call that replays nothing
Did(op, ok) == [op |-> op, ok |-> ok, users |-> <<>>, calls |-> <<>>]

\* upsert_user(id, username, point)
upsert_user(id, point) ==
  /\ IF point.k = "fin" /\ point.v < 0
     THEN /\ last' = Did("upsert_user", FALSE)
          /\ UNCHANGED <<users_, history_>>
     ELSE /\ users_' = [i \in DOMAIN users_ \cup {id} |->
                          IF i = id THEN NewUser(point) ELSE users_[i]]
          /\ last' = Did("upsert_user", TRUE)
          /\ UNCHANGED history_
  /\ UNCHANGED <<fvars, hvars>>

\* remove_user that also deletes the records naming the user
remove_user_and_records(id) ==
  /\ IF id \notin DOMAIN users_
     THEN /\ last' = Did("remove_user", FALSE)
          /\ UNCHANGED <<users_, history_>>
     ELSE /\ users_' = [i \in DOMAIN users_ \ {id} |-> users_[i]]
          /\ last' = Did("remove_user", TRUE)
          /\ history_' = SelectSeq(history_,
               LAMBDA mr : \A t \in 1..Len(mr.teams) :
                             \A k \in 1..Len(mr.teams[t]) : mr.teams[t][k] # id)
  /\ UNCHANGED <<fvars, hvars>>

\* remove_user(id)
remove_user(id) ==
  /\ IF id \notin DOMAIN users_
     THEN /\ last' = Did("remove_user", FALSE)
          /\ UNCHANGED <<users_, history_>>
     ELSE /\ users_' = [i \in DOMAIN users_ \ {id} |-> users_[i]]
          /\ last' = Did("remove_user", TRUE)
          /\ UNCHANGED history_
  /\ UNCHANGED <<fvars, hvars>>

\* add_match(teams, when)
\* the call returns history_.size() after the push_back instead of size() - 1
add_match_new_size(teams, when) ==
  /\ Len(history_) < MaxHist
  /\ history_' = Append(history_, MatchRecord(when, teams, <<>>))
  /\ last' = [op |-> "add_match", ok |-> TRUE, users |-> <<>>, calls |-> <<>>,
              index |-> Len(history_) + 1]
  /\ UNCHANGED users_
  /\ UNCHANGED <<fvars, hvars>>

add_match(teams, when) ==
  /\ Len(history_) < MaxHist
  /\ history_' = Append(history_, MatchRecord(when, teams, <<>>))
  /\ last' = [op |-> "add_match", ok |-> TRUE, users |-> <<>>, calls |-> <<>>,
              index |-> Len(history_') - 1]
  /\ UNCHANGED users_
  /\ UNCHANGED <<fvars, hvars>>

\* set_match_winner without the loop over the winner indices
set_match_winner_unchecked(index, winning_teams) ==
  /\ IF index >= Len(history_)
     THEN /\ last' = Did("set_match_winner", FALSE)
          /\ UNCHANGED <<users_, history_>>
     ELSE /\ history_' = [history_ EXCEPT ![index + 1].winning_teams = winning_teams]
          /\ last' = Did("set_match_winner", TRUE)
          /\ UNCHANGED users_
  /\ UNCHANGED <<fvars, hvars>>

\* set_match_winner(index, winning_teams), index 0-based
set_match_winner(index, winning_teams) ==
  /\ IF index >= Len(history_)
     THEN /\ last' = Did("set_match_winner", FALSE)
          /\ UNCHANGED <<users_, history_>>
     ELSE IF ~ValidWinners(history_[index + 1].teams, winning_teams)
     THEN /\ last' = Did("set_match_winner", FALSE)
          /\ UNCHANGED <<users_, history_>>
     ELSE /\ history_' = [history_ EXCEPT ![index + 1].winning_teams = winning_teams]
          /\ last' = Did("set_match_winner", TRUE)
          /\ UNCHANGED users_
  /\ UNCHANGED <<fvars, hvars>>

\* delete_match(index), index 0-based
delete_match(index) ==
  /\ IF index >= Len(history_)
     THEN /\ last' = Did("delete_match", FALSE)
          /\ UNCHANGED <<users_, history_>>
     ELSE /\ history_' = SubSeq(history_, 1, index) \o
                         SubSeq(history_, index + 2, Len(history_))
          /\ last' = Did("delete_match", TRUE)
          /\ UNCHANGED users_
  /\ UNCHANGED <<fvars, hvars>>

\* hydrate_match(mr): every member that is on the roster is replaced by the
\* current user, the others stay as stored (of a stored member only the id
\* is modelled)
hydrate_match(us, mr) ==
  [mr EXCEPT !.teams =
     [t \in 1..Len(mr.teams) |->
        [k \in 1..Len(mr.teams[t]) |->
           LET id == mr.teams[t][k] IN
           IF id \in DOMAIN us
           THEN [id |-> id, point |-> us[id].point, base_point |-> us[id].base_point,
                 wins |-> us[id].wins, games |-> us[id].games]
           ELSE [id |-> id]]]]

\* match_by_index(index), index 0-based: std::nullopt or the hydrated record
match_by_index(index) ==
  IF index >= Len(history_) THEN [found |-> FALSE]
  ELSE [found |-> TRUE, record |-> hydrate_match(users_, history_[index + 1])]

\* recompute_ratings()
RecomputeRatings ==
  \E r \in {recompute_ratings(users_, history_)} :
  /\ users_' = r.users
  /\ last' = Call("recompute_ratings", r.ok, r.calls)
  /\ UNCHANGED history_
  /\ UNCHANGED <<fvars, hvars>>

\* ------------------------------------------------------------------------
\* SpecReplay: recompute_ratings, any number of times, on every roster and
\* history that upsert_user, add_match and set_match_winner build from the
\* inputs above: users as upsert_user leaves them, records with winners that
\* set_match_winner accepts.
Rosters ==
  UNION {[S -> {NewUser(p) : p \in PointInputs}] : S \in SUBSET Ids}

Records ==
  {mr \in [when : Whens, teams : MatchTeams, winning_teams : WinnerInputs] :
     ValidWinners(mr.teams, mr.winning_teams)}

Histories == UNION {[1..n -> Records] : n \in 0..MaxHist}

\* no panel, no handler at work
NoSession == [num_teams |-> 0, selected_users |-> <<>>, formed_teams |-> <<>>]

NoReply == [text |-> "none", mention |-> 0]

\* a session manager with no session, before any event
ManagerIdle ==
  /\ sessions_ = <<>>
  /\ issued = 0
  /\ posted = <<>>
  /\ clock = 0
  /\ reply = NoReply
  /\ ref = 0

HandlersIdle ==
  /\ sess = NoSession
  /\ assign_ids = <<>>
  /\ th = <<>>
  /\ overlap = FALSE
  /\ ManagerIdle

\* no form_teams call, no handler under way
FTIdle ==
  /\ HandlersIdle
  /\ participants = <<>>
  /\ num_teams = 0
  /\ pc = "idle"
  /\ players = <<>>
  /\ best_asg = <<>>
  /\ best_spread = 0
  /\ gk = 0
  /\ cur_asg = <<>>
  /\ totals = <<>>
  /\ counts = <<>>
  /\ dk = 0
  /\ stack = <<>>
  /\ result = [ok |-> FALSE, error |-> "none"]
  /\ seed = 0
  /\ ndraw = 0
  /\ run = 1
  /\ first = [ok |-> FALSE, error |-> "none"]

ReplayInit ==
  /\ users_ \in Rosters
  /\ history_ \in Histories
  /\ last = NoCall
  /\ FTIdle

ReplayNext == RecomputeRatings

\* ------------------------------------------------------------------------
\* SpecSvc: the calls of match_service in any order, from an empty roster
\* and an empty history.  Every user starts at 0 points (or at NaN, which
\* upsert_user lets through), so positive ratings are those that replays make.
SvcPoints == {Fin(-100), Fin(0), NaN}
SvcTeams == {<<>>, <<<<1>>, <<2>>>>, <<<<1, 2>>, <<3>>, <<1>>>>}
SvcWinners == {<<>>, <<0>>, <<3>>, <<-1>>}
SvcWhens == {1}

SvcInit ==
  /\ users_ = <<>>
  /\ history_ = <<>>
  /\ last = NoCall
  /\ FTIdle

SvcNext ==
  \/ \E id \in Ids, point \in SvcPoints : upsert_user(id, point)
  \/ \E id \in Ids : remove_user(id)
  \/ \E teams \in SvcTeams, when \in SvcWhens : add_match(teams, when)
  \/ \E index \in 0..MaxHist, winning_teams \in SvcWinners :
       set_match_winner(index, winning_teams)
  \/ \E index \in 0..MaxHist : delete_match(index)
  \/ RecomputeRatings

SpecSvc == SvcInit /\ [][SvcNext]_vars

\* ------------------------------------------------------------------------
\* SpecApply: one apply_match_effect call on every roster of Rosters, with
\* every team list and every winner list of the inputs, in range or not.
ApplyInit ==
  /\ users_ \in Rosters
  /\ history_ = <<>>
  /\ last = NoCall
  /\ FTIdle

ApplyMatchEffect ==
  /\ last = NoCall
  /\ \E teams \in MatchTeams, winners \in WinnerInputs :
       \E r \in {apply_match_effect(users_, teams, winners)} :
         /\ users_' = r.users
         /\ last' = [op |-> "apply_match_effect", ok |-> r.ok, users |-> users_,
                     calls |-> <<>>, teams |-> teams, winners |-> winners,
                     error |-> IF r.ok THEN "none" ELSE r.error]
  /\ UNCHANGED history_
  /\ UNCHANGED <<fvars, hvars>>

ApplyNext == ApplyMatchEffect

SpecApply == ApplyInit /\ [][ApplyNext]_vars

\* ---------------------------------------------- team_service::form_teams
\* One call of form_teams, step by step.  Ratings are whole points here; the
\* draws of the random generator (shuffle, coin flips) are free choices.
P == Len(participants)

MaxOf(v) == CHOOSE x \in {v[i] : i \in 1..Len(v)} : \A i \in 1..Len(v) : v[i] <= x
MinOf(v) == CHOOSE x \in {v[i] : i \in 1..Len(v)} : \A i \in 1..Len(v) : v[i] >= x

\* A double carries 53 significant bits; the totals of the search carry
\* FloatBits here.  A total is a whole number of points: below 2^FloatBits
\* every whole number is a value, from there on only the multiples of the
\* quantum are, and a sum or difference is rounded to the nearest value, to
\* the even one on a tie (the default rounding of the hardware).
FloatBits == 5

RECURSIVE Quantum(_, _)
Quantum(x, q) == IF x < q * 2^FloatBits THEN q ELSE Quantum(x, 2 * q)

RoundF(x) ==
  IF x < 0 THEN x
  ELSE IF x < 2^FloatBits THEN x
  ELSE LET q == Quantum(x, 2)
           n == x \div q
           r == x - n * q
       IN IF 2 * r < q THEN n * q
          ELSE IF 2 * r > q THEN (n + 1) * q
          ELSE IF n % 2 = 0 THEN n * q ELSE (n + 1) * q

\* a + b and a - b on doubles
fadd(a, b) == RoundF(a + b)

fsub(a, b) == RoundF(a - b)

\* spread_of(v) = max - min
spread_of(v) == IF v = <<>> THEN 0 ELSE fsub(MaxOf(v), MinOf(v))

\* std::ranges::stable_sort(players, std::greater{}, &user::point), as an
\* insertion sort: x goes after the last element whose point is not smaller
RECURSIVE InsertByPoint(_, _)
InsertByPoint(sorted, x) ==
  IF sorted = <<>> THEN <<x>>
  ELSE LET l == sorted[Len(sorted)] IN
       IF x.point > l.point
       THEN InsertByPoint(SubSeq(sorted, 1, Len(sorted) - 1), x) \o <<l>>
       ELSE sorted \o <<x>>

RECURSIVE SortDescFrom(_, _, _)
SortDescFrom(v, sorted, i) ==
  IF i > Len(v) THEN sorted ELSE SortDescFrom(v, InsertByPoint(sorted, v[i]), i + 1)

StableSortDesc(v) == SortDescFrom(v, <<>>, 1)

\* the orders std::ranges::shuffle can leave a sequence in
Shuffles(v) ==
  {[i \in 1..Len(v) |-> v[f[i]]] :
     f \in {g \in [1..Len(v) -> 1..Len(v)] : \A a, b \in 1..Len(v) : a # b => g[a] # g[b]}}

\* suf[k] for 0-based k: sum of the points of players[k], ..., players[P-1]
RECURSIVE suf(_, _)
suf(pl, k) == IF k >= Len(pl) THEN 0 ELSE fadd(suf(pl, k + 1), pl[k + 1].point)

\* the greedy's inner loop over t = 0..T-1 for a player of rating pt: the
\* values best_t can end with, over the outcomes of the coin flips
\* (best_cost = -1 stands for +infinity)
RECURSIVE GreedyChoices(_, _, _, _, _)
GreedyChoices(tot, pt, t, best_t, best_cost) ==
  IF t >= Len(tot) THEN {best_t}
  ELSE LET cost == spread_of([tot EXCEPT ![t + 1] = fadd(@, pt)]) IN
       IF best_cost = -1 \/ cost < best_cost
       THEN GreedyChoices(tot, pt, t + 1, t, cost)
       ELSE IF cost = best_cost
       THEN GreedyChoices(tot, pt, t + 1, t, best_cost) \cup
            GreedyChoices(tot, pt, t + 1, best_t, best_cost)
       ELSE GreedyChoices(tot, pt, t + 1, best_t, best_cost)

\* lower_bound(k) * T: TARGET_MEAN = TOTAL / T is kept as TOTAL over T
lower_bound_T(pl, tot, T, k) ==
  LET cur_min == MinOf(tot)
      cur_max == MaxOf(tot)
      TOTAL == suf(pl, 0)
      lb_mean_T == IF T * cur_max - TOTAL >= TOTAL - T * cur_min
                   THEN T * cur_max - TOTAL ELSE TOTAL - T * cur_min
      rem == cur_max - (cur_min + suf(pl, k))
      lb_rem_T == IF rem > 0 THEN T * rem ELSE 0
  IN IF lb_mean_T >= lb_rem_T THEN lb_mean_T ELSE lb_rem_T

\* the prune test: lower_bound(k) >= best_spread - 1e-12
Prune(pl, tot, T, k, best) == lower_bound_T(pl, tot, T, k) >= T * best

\* must_fill_empty(k)
must_fill_empty(cnt, np, k) ==
  LET empty == Cardinality({t \in 1..Len(cnt) : cnt[t] = 0})
      left == np - k
  IN left = empty /\ empty > 0

\* team_order: 0..T-1 stably sorted by (totals, counts)
TeamLess(tot, cnt, a, b) ==
  IF tot[a + 1] # tot[b + 1] THEN tot[a + 1] < tot[b + 1] ELSE cnt[a + 1] < cnt[b + 1]

RECURSIVE InsertTeam(_, _, _, _)
InsertTeam(tot, cnt, sorted, x) ==
  IF sorted = <<>> THEN <<x>>
  ELSE LET l == sorted[Len(sorted)] IN
       IF TeamLess(tot, cnt, x, l)
       THEN InsertTeam(tot, cnt, SubSeq(sorted, 1, Len(sorted) - 1), x) \o <<l>>
       ELSE sorted \o <<x>>

RECURSIVE TeamOrderFrom(_, _, _, _)
TeamOrderFrom(tot, cnt, sorted, t) ==
  IF t >= Len(tot) THEN sorted
  ELSE TeamOrderFrom(tot, cnt, InsertTeam(tot, cnt, sorted, t), t + 1)

team_order(tot, cnt) == TeamOrderFrom(tot, cnt, <<>>, 0)

\* the empty teams in index order
RECURSIVE EmptyTeams(_, _)
EmptyTeams(cnt, t) ==
  IF t >= Len(cnt) THEN <<>>
  ELSE (IF cnt[t + 1] = 0 THEN <<t>> ELSE <<>>) \o EmptyTeams(cnt, t + 1)

\* total_point of a result team (sequence of [id, point]): the fold from the
\* left over its first k members
RECURSIVE total_point(_, _)
total_point(members, k) ==
  IF k = 0 THEN 0 ELSE fadd(total_point(members, k - 1), members[k].point)

\* the fallback of the build loop: first team of lowest total
FallbackTeam(res) ==
  CHOOSE j \in 0..(Len(res) - 1) :
    /\ \A i \in 0..(Len(res) - 1) : total_point(res[j + 1], Len(res[j + 1])) <= total_point(res[i + 1], Len(res[i + 1]))
    /\ \A i \in 0..(j - 1) : total_point(res[i + 1], Len(res[i + 1])) > total_point(res[j + 1], Len(res[j + 1]))

\* BuildResult with the loop one player short
RECURSIVE BuildResultShort(_, _, _, _)
BuildResultShort(pl, asg, res, k) ==
  IF k >= Len(pl) THEN res
  ELSE BuildResultShort(pl, asg, [res EXCEPT ![asg[k] + 1] = Append(@, pl[k])], k + 1)

\* the build loop from player k (1-based) on
RECURSIVE BuildResult(_, _, _, _)
BuildResult(pl, asg, res, k) ==
  IF k > Len(pl) THEN res
  ELSE LET t == IF asg[k] < 0 \/ asg[k] >= Len(res) THEN FallbackTeam(res) ELSE asg[k]
       IN BuildResult(pl, asg, [res EXCEPT ![t + 1] = Append(@, pl[k])], k + 1)

\* std::mt19937_64 rng(config.seed ? config.seed : make_seed()): the
\* generator is seeded with config.seed unless that is 0; make_seed() mixes
\* the wall clock in, so its value differs from call to call
NeverConfigSeed(s) == FALSE

UsesConfigSeed(s) == s # 0

\* The output of the generator is a function of its seed and of the number
\* of draws taken so far.  Gen stands for that function: it picks, out of the
\* values a draw can deliver, the one numbered by seed and draw count.
RECURSIVE Nth(_, _)
Nth(S, r) ==
  LET x == CHOOSE y \in S : TRUE
  IN IF r = 0 THEN x ELSE Nth(S \ {x}, r - 1)

Gen(s, n, choices) == Nth(choices, (s + 3 * n) % Cardinality(choices))

\* the values a draw can deliver: one value when the generator was seeded
\* with config.seed, any value after make_seed()
Draws(choices) ==
  IF UsesConfigSeed(seed) THEN {Gen(seed, ndraw, choices)} ELSE choices

Drawn == IF UsesConfigSeed(seed) THEN ndraw + 1 ELSE ndraw

\* the calls: every roster of up to MaxN ratings (in nondecreasing order,
\* the shuffle makes the input order immaterial) with every team count from
\* -1 up to MaxT, and two larger calls: one where the greedy split is not the best
\* one, one where dfs runs down to a leaf
FTInputs == UNION {[1..n -> 0..MaxRating] : n \in 0..MaxN}

FTScenarios ==
  {[participants |-> <<2, 2, 2, 3, 3>>, num_teams |-> 2],
   [participants |-> <<1, 1, 1, 4>>, num_teams |-> 3]}

\* a call whose largest rating is the first one whose sum with another
\* rating is not a value of the totals
FloatScenarios ==
  {[participants |-> <<1, 1, 1, 2^FloatBits>>, num_teams |-> 3]}

FTCalls ==
  {[participants |-> v, num_teams |-> t] :
     v \in {w \in FTInputs : \A i \in 1..(Len(w) - 1) : w[i] <= w[i + 1]},
     t \in (-1)..MaxT}
  \cup FTScenarios \cup FloatScenarios

FTInit ==
  /\ \E c \in FTCalls :
       /\ participants = c.participants
       /\ num_teams = c.num_teams
  /\ pc = "call"
  /\ players = <<>>
  /\ best_asg = <<>>
  /\ best_spread = 0
  /\ gk = 0
  /\ cur_asg = <<>>
  /\ totals = <<>>
  /\ counts = <<>>
  /\ dk = 0
  /\ stack = <<>>
  /\ result = [ok |-> FALSE, error |-> "none"]
  /\ seed = 0
  /\ ndraw = 0
  /\ run = 1
  /\ first = [ok |-> FALSE, error |-> "none"]
  /\ users_ = <<>>
  /\ history_ = <<>>
  /\ last = NoCall
  /\ HandlersIdle

\* the first sanity check, answering with the text of the second one
RejectTeamsAsUsers ==
  /\ pc = "call"
  /\ num_teams < 1
  /\ result' = [ok |-> FALSE, error |-> "users_not_enough"]
  /\ pc' = "done"
  /\ UNCHANGED <<participants, num_teams, players, best_asg, best_spread, gk,
                 cur_asg, totals, counts, dk, stack>>
  /\ UNCHANGED svars
  /\ UNCHANGED <<callvars, ndraw>>

\* sanity checks: num_teams < 1
RejectTeams ==
  /\ pc = "call"
  /\ num_teams < 1
  /\ result' = [ok |-> FALSE, error |-> "teams_must_positive"]
  /\ pc' = "done"
  /\ UNCHANGED <<participants, num_teams, players, best_asg, best_spread, gk,
                 cur_asg, totals, counts, dk, stack>>
  /\ UNCHANGED svars
  /\ UNCHANGED <<callvars, ndraw>>

\* sanity checks: participants.size() < num_teams
RejectUsers ==
  /\ pc = "call"
  /\ num_teams >= 1
  /\ P < num_teams
  /\ result' = [ok |-> FALSE, error |-> "users_not_enough"]
  /\ pc' = "done"
  /\ UNCHANGED <<participants, num_teams, players, best_asg, best_spread, gk,
                 cur_asg, totals, counts, dk, stack>>
  /\ UNCHANGED svars
  /\ UNCHANGED <<callvars, ndraw>>

\* copy, shuffle, stable sort; set up the greedy
Preprocess ==
  /\ pc = "call"
  /\ num_teams >= 1
  /\ P >= num_teams
  /\ \E sh \in Draws(Shuffles([i \in 1..P |-> [id |-> i, point |-> participants[i]]])) :
       /\ players' = StableSortDesc(sh)
       /\ ndraw' = Drawn
  /\ best_asg' = [k \in 1..P |-> -1]
  /\ totals' = [t \in 1..num_teams |-> 0]
  /\ gk' = 0
  /\ pc' = "greedy"
  /\ UNCHANGED <<participants, num_teams, best_spread, cur_asg, counts, dk,
                 stack, result>>
  /\ UNCHANGED svars
  /\ UNCHANGED callvars

\* one iteration of the greedy loop; after the last one, best_spread and the
\* start of dfs(0)
GreedyStep ==
  /\ pc = "greedy"
  /\ gk < P
  /\ \E best_t \in Draws(GreedyChoices(totals, players[gk + 1].point, 0, 0, -1)) :
       LET nt == [totals EXCEPT ![best_t + 1] = fadd(@, players[gk + 1].point)] IN
       /\ ndraw' = Drawn
       /\ best_asg' = [best_asg EXCEPT ![gk + 1] = best_t]
       /\ gk' = gk + 1
       /\ IF gk + 1 < P
          THEN /\ totals' = nt
               /\ UNCHANGED <<pc, best_spread, cur_asg, counts, dk>>
          ELSE /\ best_spread' = spread_of(nt)
               /\ cur_asg' = [k \in 1..P |-> -1]
               /\ totals' = [t \in 1..num_teams |-> 0]
               /\ counts' = [t \in 1..num_teams |-> 0]
               /\ dk' = 0
               /\ pc' = "dfs_enter"
  /\ UNCHANGED <<participants, num_teams, players, stack, result>>
  /\ UNCHANGED svars
  /\ UNCHANGED callvars

\* dfs(k), k == P: a complete assignment
DfsLeaf ==
  /\ pc = "dfs_enter"
  /\ dk = P
  /\ IF \E t \in 1..num_teams : counts[t] = 0
     THEN UNCHANGED <<best_spread, best_asg, ndraw>>
     ELSE LET sp == spread_of(totals) IN
          IF sp < best_spread
          THEN best_spread' = sp /\ best_asg' = cur_asg /\ UNCHANGED ndraw
          ELSE IF sp = best_spread
          THEN /\ UNCHANGED best_spread
               /\ \E coin \in Draws({0, 1}) :
                    /\ best_asg' = IF coin = 1 THEN cur_asg ELSE best_asg
                    /\ ndraw' = Drawn
          ELSE UNCHANGED <<best_spread, best_asg, ndraw>>
  /\ pc' = "dfs_return"
  /\ UNCHANGED <<participants, num_teams, players, gk, cur_asg, totals, counts,
                 dk, stack, result>>
  /\ UNCHANGED svars
  /\ UNCHANGED callvars

\* dfs(k), k < P, pruned by the bound
DfsPrune ==
  /\ pc = "dfs_enter"
  /\ dk < P
  /\ Prune(players, totals, num_teams, dk, best_spread)
  /\ pc' = "dfs_return"
  /\ UNCHANGED <<participants, num_teams, players, best_asg, best_spread, gk,
                 cur_asg, totals, counts, dk, stack, result>>
  /\ UNCHANGED svars
  /\ UNCHANGED <<callvars, ndraw>>

\* dfs(k), k < P, not pruned: fix the branching order
DfsExpand ==
  /\ pc = "dfs_enter"
  /\ dk < P
  /\ ~Prune(players, totals, num_teams, dk, best_spread)
  /\ IF must_fill_empty(counts, P, dk)
     THEN \E order \in Draws(Shuffles(EmptyTeams(counts, 0))) :
            /\ stack' = Append(stack, [k |-> dk, order |-> order, i |-> 1])
            /\ ndraw' = Drawn
     ELSE /\ stack' = Append(stack, [k |-> dk, order |-> team_order(totals, counts),
                                     i |-> 1])
          /\ UNCHANGED ndraw
  /\ pc' = "dfs_loop"
  /\ UNCHANGED <<participants, num_teams, players, best_asg, best_spread, gk,
                 cur_asg, totals, counts, dk, result>>
  /\ UNCHANGED svars
  /\ UNCHANGED callvars

\* the branching loop: place players[k] on the next team and call dfs(k + 1)
DfsBranch ==
  /\ pc = "dfs_loop"
  /\ LET f == stack[Len(stack)] IN
     /\ f.i <= Len(f.order)
     /\ LET t == f.order[f.i] IN
        /\ totals' = [totals EXCEPT ![t + 1] = fadd(@, players[f.k + 1].point)]
        /\ counts' = [counts EXCEPT ![t + 1] = @ + 1]
        /\ cur_asg' = [cur_asg EXCEPT ![f.k + 1] = t]
        /\ dk' = f.k + 1
  /\ pc' = "dfs_enter"
  /\ UNCHANGED <<participants, num_teams, players, best_asg, best_spread, gk,
                 stack, result>>
  /\ UNCHANGED svars
  /\ UNCHANGED <<callvars, ndraw>>

\* the branching loop is over: dfs(k) returns
DfsLoopEnd ==
  /\ pc = "dfs_loop"
  /\ stack[Len(stack)].i > Len(stack[Len(stack)].order)
  /\ stack' = SubSeq(stack, 1, Len(stack) - 1)
  /\ pc' = "dfs_return"
  /\ UNCHANGED <<participants, num_teams, players, best_asg, best_spread, gk,
                 cur_asg, totals, counts, dk, result>>
  /\ UNCHANGED svars
  /\ UNCHANGED <<callvars, ndraw>>

\* back in the caller after dfs(k + 1): undo the placement
DfsUndo ==
  /\ pc = "dfs_return"
  /\ stack # <<>>
  /\ LET f == stack[Len(stack)]
         t == f.order[f.i]
     IN /\ cur_asg' = [cur_asg EXCEPT ![f.k + 1] = -1]
        /\ counts' = [counts EXCEPT ![t + 1] = @ - 1]
        /\ totals' = [totals EXCEPT ![t + 1] = fsub(@, players[f.k + 1].point)]
        /\ stack' = [stack EXCEPT ![Len(stack)].i = @ + 1]
  /\ pc' = "dfs_loop"
  /\ UNCHANGED <<participants, num_teams, players, best_asg, best_spread, gk,
                 dk, result>>
  /\ UNCHANGED svars
  /\ UNCHANGED <<callvars, ndraw>>

\* dfs(0) has returned: build the result from best_asg
Build ==
  /\ pc = "dfs_return"
  /\ stack = <<>>
  /\ result' = [ok |-> TRUE,
                teams |-> BuildResult(players, best_asg,
                                      [t \in 1..num_teams |-> <<>>], 1)]
  /\ pc' = "done"
  /\ UNCHANGED <<participants, num_teams, players, best_asg, best_spread, gk,
                 cur_asg, totals, counts, dk, stack>>
  /\ UNCHANGED svars
  /\ UNCHANGED <<callvars, ndraw>>

FTNext ==
  \/ RejectTeams
  \/ RejectUsers
  \/ Preprocess
  \/ GreedyStep
  \/ DfsLeaf
  \/ DfsPrune
  \/ DfsExpand
  \/ DfsBranch
  \/ DfsLoopEnd
  \/ DfsUndo
  \/ Build

SpecFT == FTInit /\ [][FTNext]_vars

\* ------------------------------------------------------------------------
\* SpecSeed: the same call made twice, with config.seed from Seeds (0 is the
\* default of formation_config::seed).
Seeds == {0, 1}

SeedCalls ==
  FTScenarios \cup
  {[participants |-> <<>>, num_teams |-> 1],
   [participants |-> <<1>>, num_teams |-> 0],
   [participants |-> <<1>>, num_teams |-> 2],
   [participants |-> <<0, 0>>, num_teams |-> 2],
   [participants |-> <<1, 1, 2>>, num_teams |-> 2]}

SeedInit ==
  /\ \E c \in SeedCalls :
       /\ participants = c.participants
       /\ num_teams = c.num_teams
  /\ seed \in Seeds
  /\ pc = "call"
  /\ players = <<>>
  /\ best_asg = <<>>
  /\ best_spread = 0
  /\ gk = 0
  /\ cur_asg = <<>>
  /\ totals = <<>>
  /\ counts = <<>>
  /\ dk = 0
  /\ stack = <<>>
  /\ result = [ok |-> FALSE, error |-> "none"]
  /\ ndraw = 0
  /\ run = 1
  /\ first = [ok |-> FALSE, error |-> "none"]
  /\ users_ = <<>>
  /\ history_ = <<>>
  /\ last = NoCall
  /\ HandlersIdle

\* the caller makes the same call again: same participants, same config
CallAgain ==
  /\ pc = "done"
  /\ run = 1
  /\ first' = result
  /\ run' = 2
  /\ pc' = "call"
  /\ players' = <<>>
  /\ best_asg' = <<>>
  /\ best_spread' = 0
  /\ gk' = 0
  /\ cur_asg' = <<>>
  /\ totals' = <<>>
  /\ counts' = <<>>
  /\ dk' = 0
  /\ stack' = <<>>
  /\ result' = [ok |-> FALSE, error |-> "none"]
  /\ ndraw' = 0
  /\ UNCHANGED <<participants, num_teams, seed>>
  /\ UNCHANGED svars

SeedNext ==
  \/ RejectTeams
  \/ RejectUsers
  \/ Preprocess
  \/ GreedyStep
  \/ DfsLeaf
  \/ DfsPrune
  \/ DfsExpand
  \/ DfsBranch
  \/ DfsLoopEnd
  \/ DfsUndo
  \/ Build
  \/ CallAgain

SpecSeed == SeedInit /\ [][SeedNext]_vars

\* ------------------------------------------------------------------------
\* SpecPanel: one team-formation panel, its events handled one at a time, up
\* to the first match it commits.  The roster has four users (three at 1
\* point, one at 4); /removeuser can take any of them off while the panel
\* is open.
PanelIds == {1, 2, 3, 4}

PanelRoster == [id \in PanelIds |-> NewUser(Fin(IF id = 4 THEN 400 ELSE 100))]

\* cmd_formteams makes the session with num_teams >= 1
PanelTeams == {2, 3}

\* the values of a select event: the chosen user ids, each once
SelectValues ==
  {v \in UNION {[1..n -> PanelIds] : n \in 0..Cardinality(PanelIds)} :
     \A i \in 1..(Len(v) - 1) : v[i] < v[i + 1]}

PanelInit ==
  /\ users_ = PanelRoster
  /\ history_ = <<>>
  /\ last = NoCall
  /\ sess \in {[num_teams |-> t, selected_users |-> <<>>, formed_teams |-> <<>>] :
                 t \in PanelTeams}
  /\ assign_ids = <<>>
  /\ th = <<>>
  /\ overlap = FALSE
  /\ ManagerIdle
  /\ participants = <<>>
  /\ num_teams = 0
  /\ pc = "idle"
  /\ players = <<>>
  /\ best_asg = <<>>
  /\ best_spread = 0
  /\ gk = 0
  /\ cur_asg = <<>>
  /\ totals = <<>>
  /\ counts = <<>>
  /\ dk = 0
  /\ stack = <<>>
  /\ result = [ok |-> FALSE, error |-> "none"]
  /\ seed = 0
  /\ ndraw = 0
  /\ run = 1
  /\ first = [ok |-> FALSE, error |-> "none"]

\* no handler is at work and no match has been committed yet
PanelOpen == pc = "idle" /\ history_ = <<>>

\* command_handler::cmd_removeuser
cmd_removeuser ==
  /\ PanelOpen
  /\ \E id \in PanelIds : remove_user(id)

\* handle_user_select
handle_user_select ==
  /\ PanelOpen
  /\ \E values \in SelectValues :
       sess' = [sess EXCEPT !.selected_users = values, !.formed_teams = <<>>]
  /\ UNCHANGED <<users_, history_, last, assign_ids, th, overlap, mvars>>
  /\ UNCHANGED fvars

\* the users of ids that find_user finds, in the order of ids
RECURSIVE FoundUsers(_, _)
FoundUsers(ids, k) ==
  IF k > Len(ids) THEN <<>>
  ELSE (IF ids[k] \in DOMAIN users_ THEN <<ids[k]>> ELSE <<>>)
       \o FoundUsers(ids, k + 1)

\* handle_assign up to the form_teams call: the two checks, then the
\* participants that find_user finds
handle_assign ==
  /\ PanelOpen
  /\ IF \/ sess.selected_users = <<>>
        \/ Len(sess.selected_users) < sess.num_teams
     THEN UNCHANGED <<participants, num_teams, pc, assign_ids>>
     ELSE \E found \in {FoundUsers(sess.selected_users, 1)} :
            /\ assign_ids' = found
            /\ participants' = [i \in 1..Len(found) |-> users_[found[i]].point.v]
            /\ num_teams' = sess.num_teams
            /\ pc' = "call"
  /\ UNCHANGED <<players, best_asg, best_spread, gk, cur_asg, totals, counts, dk,
                 stack, result, seed, ndraw, run, first>>
  /\ UNCHANGED <<users_, history_, last, sess, th, overlap, mvars>>

\* handle_assign after the form_teams call: an error is replied, a result
\* is stored in sess.formed_teams
handle_assign_return ==
  /\ pc = "done"
  /\ sess' = IF result.ok
             THEN [sess EXCEPT !.formed_teams =
                     [t \in 1..Len(result.teams) |->
                        [k \in 1..Len(result.teams[t]) |->
                           assign_ids[result.teams[t][k].id]]]]
             ELSE sess
  /\ assign_ids' = <<>>
  /\ participants' = <<>>
  /\ num_teams' = 0
  /\ pc' = "idle"
  /\ players' = <<>>
  /\ best_asg' = <<>>
  /\ best_spread' = 0
  /\ gk' = 0
  /\ cur_asg' = <<>>
  /\ totals' = <<>>
  /\ counts' = <<>>
  /\ dk' = 0
  /\ stack' = <<>>
  /\ result' = [ok |-> FALSE, error |-> "none"]
  /\ UNCHANGED <<seed, ndraw, run, first>>
  /\ UNCHANGED <<users_, history_, last, th, overlap, mvars>>

\* handle_newmatch
handle_newmatch ==
  /\ PanelOpen
  /\ sess.formed_teams # <<>>
  /\ \E now \in Whens : add_match(sess.formed_teams, now)

\* form_teams is entered with num_teams >= 1 here, so its first check
\* never answers
PanelNext ==
  \/ cmd_removeuser
  \/ handle_user_select
  \/ handle_assign
  \/ RejectUsers
  \/ Preprocess
  \/ GreedyStep
  \/ DfsLeaf
  \/ DfsPrune
  \/ DfsExpand
  \/ DfsBranch
  \/ DfsLoopEnd
  \/ DfsUndo
  \/ Build
  \/ handle_assign_return
  \/ handle_newmatch

SpecPanel == PanelInit /\ [][PanelNext]_vars

\* ------------------------------------------------------------------------
\* SpecRace: two event callbacks at work at once on the one match_service,
\* each at a statement of its own.  Neither the handlers nor the service
\* take a lock, so the statements of the two interleave freely.
Threads == {1, 2}

\* a thread that handles no event
ThreadIdle == [op |-> "idle", at |-> "none", order |-> <<>>, ids |-> <<>>, got |-> <<>>]

RaceRoster == [id \in Ids |-> NewUser(Fin(100))]

RaceHistory == <<[when |-> 1, teams |-> <<<<1>>, <<2>>>>, winning_teams |-> <<>>]>>

\* the ratings /adduser gives
RacePoints == {Fin(100), Fin(200)}

\* the users selected in the panel whose assign button is pressed
RaceSelected == {<<1, 2>>}

RaceInit ==
  /\ users_ = RaceRoster
  /\ history_ = RaceHistory
  /\ last = NoCall
  /\ sess = NoSession
  /\ assign_ids = <<>>
  /\ th = [t \in Threads |-> ThreadIdle]
  /\ overlap = FALSE
  /\ ManagerIdle
  /\ participants = <<>>
  /\ num_teams = 0
  /\ pc = "idle"
  /\ players = <<>>
  /\ best_asg = <<>>
  /\ best_spread = 0
  /\ gk = 0
  /\ cur_asg = <<>>
  /\ totals = <<>>
  /\ counts = <<>>
  /\ dk = 0
  /\ stack = <<>>
  /\ result = [ok |-> FALSE, error |-> "none"]
  /\ seed = 0
  /\ ndraw = 0
  /\ run = 1
  /\ first = [ok |-> FALSE, error |-> "none"]

\* what no statement of the two callbacks touches here
RaceFrame == UNCHANGED <<last, sess, assign_ids, fvars, mvars>>

\* handle_win has written the winner and has not finished recompute_ratings
InMutation(r) == r.op = "win" /\ r.at \in {"recompute", "apply"}

\* recompute_ratings has reset the roster and has not applied every match
InReplay(r) == r.op = "win" /\ r.at = "apply"

OtherMutating(t) == \E u \in Threads \ {t} : InMutation(th[u])

OtherReplaying(t) == \E u \in Threads \ {t} : InReplay(th[u])

\* handle_win: set_match_winner on the chosen match
win_set_winner(t) ==
  /\ th[t] = ThreadIdle
  /\ \E index \in 0..Len(history_), team_idx \in 0..1 :
       IF \/ index >= Len(history_)
          \/ ~ValidWinners(history_[index + 1].teams, <<team_idx>>)
       THEN UNCHANGED <<history_, th, overlap>>
       ELSE /\ history_' = [history_ EXCEPT ![index + 1].winning_teams = <<team_idx>>]
            /\ th' = [th EXCEPT ![t] = [ThreadIdle EXCEPT !.op = "win", !.at = "recompute"]]
            /\ overlap' = (overlap \/ OtherMutating(t))
  /\ UNCHANGED users_
  /\ RaceFrame

\* recompute_ratings: the reset loop and the chronological order
recompute_reset(t) ==
  /\ th[t].op = "win"
  /\ th[t].at = "recompute"
  /\ users_' = ResetUsers(users_)
  /\ \E order \in {ChronologicalOrder(history_)} :
       th' = [th EXCEPT ![t].order = order,
                        ![t].at = IF order = <<>> THEN "save" ELSE "apply"]
  /\ overlap' = (overlap \/ OtherMutating(t))
  /\ UNCHANGED history_
  /\ RaceFrame

\* recompute_ratings: one turn of the loop that applies the matches
recompute_apply(t) ==
  /\ th[t].op = "win"
  /\ th[t].at = "apply"
  /\ \E mr \in {history_[Head(th[t].order)]} :
       \E r \in {apply_match_effect(users_, mr.teams, mr.winning_teams)} :
         /\ users_' = r.users
         /\ th' = IF ~r.ok THEN [th EXCEPT ![t] = ThreadIdle]
                  ELSE IF Len(th[t].order) = 1
                  THEN [th EXCEPT ![t].order = <<>>, ![t].at = "save"]
                  ELSE [th EXCEPT ![t].order = Tail(th[t].order)]
  /\ overlap' = (overlap \/ OtherMutating(t))
  /\ UNCHANGED history_
  /\ RaceFrame

\* handle_win: save and the reply
win_save(t) ==
  /\ th[t].op = "win"
  /\ th[t].at = "save"
  /\ th' = [th EXCEPT ![t] = ThreadIdle]
  /\ UNCHANGED <<users_, history_, overlap>>
  /\ RaceFrame

\* cmd_adduser for a registered user: upsert_user, save and the reply
cmd_adduser(t) ==
  /\ th[t] = ThreadIdle
  /\ \E id \in Ids, point \in RacePoints :
       users_' = [i \in DOMAIN users_ \cup {id} |->
                    IF i = id THEN NewUser(point) ELSE users_[i]]
  /\ overlap' = (overlap \/ OtherMutating(t))
  /\ UNCHANGED <<history_, th>>
  /\ RaceFrame

\* handle_assign: the two checks pass
assign_enter(t) ==
  /\ th[t] = ThreadIdle
  /\ \E ids \in RaceSelected :
       th' = [th EXCEPT ![t] = [ThreadIdle EXCEPT !.op = "assign", !.at = "gather",
                                                  !.ids = ids]]
  /\ UNCHANGED <<users_, history_, overlap>>
  /\ RaceFrame

\* handle_assign: one turn of the loop that copies the users find_user finds
assign_find_user(t) ==
  /\ th[t].op = "assign"
  /\ th[t].ids # <<>>
  /\ \E id \in {Head(th[t].ids)} :
       th' = [th EXCEPT ![t].ids = Tail(th[t].ids),
                        ![t].got = IF id \in DOMAIN users_
                                   THEN Append(th[t].got, users_[id].point)
                                   ELSE th[t].got]
  /\ overlap' = (overlap \/ OtherReplaying(t))
  /\ UNCHANGED <<users_, history_>>
  /\ RaceFrame

\* handle_assign: form_teams on the copy and the reply; the search and the
\* teams it stores in the session touch neither users_ nor history_
assign_form_teams(t) ==
  /\ th[t].op = "assign"
  /\ th[t].ids = <<>>
  /\ th' = [th EXCEPT ![t] = ThreadIdle]
  /\ UNCHANGED <<users_, history_, overlap>>
  /\ RaceFrame

RaceNext ==
  \/ \E t \in Threads : win_set_winner(t)
  \/ \E t \in Threads : recompute_reset(t)
  \/ \E t \in Threads : recompute_apply(t)
  \/ \E t \in Threads : win_save(t)
  \/ \E t \in Threads : cmd_adduser(t)
  \/ \E t \in Threads : assign_enter(t)
  \/ \E t \in Threads : assign_find_user(t)
  \/ \E t \in Threads : assign_form_teams(t)

SpecRace == RaceInit /\ [][RaceNext]_vars

\* ------------------------------------------------------------------------
\* The panels: session_manager and the callbacks of interaction_handler,
\* one event handled at a time.  An event carries the custom_id of a
\* component of a panel message, "panel:<panel id>:<action>[:<arg>]", and
\* the id of the user who clicked.
max_sessions == 8

\* the ids generate_token hands out, the instants of the steady clock, the
\* users who click, and the users who open panels
Tokens == 1..10
Instants == {0, 1}
Clickers == {1, 2}
Owners == {1}

\* what a read of a freed panel_session::owner_id may give
Snowflakes == {0, 1, 2}

Said(text) == [text |-> text, mention |-> 0]

\* the panel_session that cmd_formteams and cmd_sethistory build; created_at
\* and last_accessed_at default to the instant of construction
panel_session(owner_id, type, n, teams, index) ==
  [owner_id |-> owner_id, type |-> type, active |-> TRUE, num_teams |-> n,
   selected_users |-> <<>>, formed_teams |-> teams,
   selected_match_index |-> index, last_accessed_at |-> clock]

\* session_manager::generate_token: 64 random bits, taken to be fresh
generate_token == issued + 1

WithoutSessions(m, E) == [p \in DOMAIN m \ E |-> m[p]]

\* session_manager::cleanup_old_sessions: the maps it can leave.  The ids are
\* sorted by last_accessed_at with std::ranges::sort, which orders entries
\* of equal time in any way; the first size - max_sessions are erased.
evicts(m) ==
  {E \in SUBSET DOMAIN m :
     /\ Cardinality(E) = Cardinality(DOMAIN m) - max_sessions
     /\ \A e \in E : \A k \in DOMAIN m \ E :
          m[e].last_accessed_at <= m[k].last_accessed_at}

cleanup_old_sessions(m) ==
  IF Cardinality(DOMAIN m) <= max_sessions THEN {m}
  ELSE {WithoutSessions(m, E) : E \in evicts(m)}

\* session_manager::create_session: the maps it can leave
create_session(session) ==
  cleanup_old_sessions(
    [p \in DOMAIN sessions_ \cup {generate_token} |->
       IF p = generate_token THEN session ELSE sessions_[p]])

\* session_manager::get_session: whether it finds an active session, and
\* the map after it has refreshed last_accessed_at
Found(m, panel_id) == panel_id \in DOMAIN m /\ m[panel_id].active

Touched(m, panel_id) == [m EXCEPT ![panel_id].last_accessed_at = clock]

\* the steady clock advances
Tick ==
  /\ pc = "idle"
  /\ clock + 1 \in Instants
  /\ clock' = clock + 1
  /\ UNCHANGED <<users_, history_, last, sess, assign_ids, th, overlap,
                 sessions_, issued, posted, reply, ref>>
  /\ UNCHANGED fvars

\* what is left alone by a command or an event that makes no form_teams call
NoCallFrame ==
  /\ UNCHANGED <<last, sess, assign_ids, th, overlap, clock>>
  /\ UNCHANGED fvars

\* create_session followed by get_session, as both commands do
OpenPanel(session, type) ==
  \E m \in create_session(session) :
    /\ issued' = generate_token
    /\ IF Found(m, generate_token)
       THEN /\ sessions_' = Touched(m, generate_token)
            /\ reply' = Said(type)
            /\ posted' = [p \in DOMAIN posted \cup {generate_token} |->
                            IF p = generate_token
                            THEN [kind |-> type, open |-> TRUE] ELSE posted[p]]
       ELSE /\ sessions_' = m
            /\ reply' = Said("cannot create session")
            /\ UNCHANGED posted

\* command_handler::cmd_formteams
cmd_formteams(usr, n) ==
  /\ pc = "idle"
  /\ generate_token \in Tokens
  /\ IF n < 1
     THEN /\ reply' = Said("teams_must_positive")
          /\ UNCHANGED <<sessions_, issued, posted>>
     ELSE IF DOMAIN users_ = {}
     THEN /\ reply' = Said("no registered users")
          /\ UNCHANGED <<sessions_, issued, posted>>
     ELSE IF n > Cardinality(DOMAIN users_)
     THEN /\ reply' = Said("not enough users")
          /\ UNCHANGED <<sessions_, issued, posted>>
     ELSE OpenPanel(panel_session(usr, "formteams", n, <<>>, -1), "formteams")
  /\ UNCHANGED <<users_, history_, ref>>
  /\ NoCallFrame

\* the indices that the front entry of recent_indexed_matches can carry
recent_indexed_front == 0..(Len(history_) - 1)

\* command_handler::cmd_sethistory.  The panel starts on the front entry of
\* recent_indexed_matches, an index of the history with its record.
cmd_sethistory(usr) ==
  /\ pc = "idle"
  /\ generate_token \in Tokens
  /\ IF history_ = <<>>
     THEN /\ reply' = Said("no match yet")
          /\ UNCHANGED <<sessions_, issued, posted>>
     ELSE \E index \in recent_indexed_front :
            OpenPanel(panel_session(usr, "sethistory",
                                    Len(history_[index + 1].teams),
                                    history_[index + 1].teams, index),
                      "sethistory")
  /\ UNCHANGED <<users_, history_, ref>>
  /\ NoCallFrame

\* on_button / on_select up to the dispatch: get_session, then the owner
\* check
Gate(panel_id, usr) ==
  IF ~Found(sessions_, panel_id) THEN "panel_expired"
  ELSE IF usr # sessions_[panel_id].owner_id THEN "panel_owner_only"
  ELSE "pass"

\* the event is answered with the error of the gate
Refuse(panel_id, usr) ==
  /\ sessions_' = IF Found(sessions_, panel_id)
                  THEN Touched(sessions_, panel_id) ELSE sessions_
  /\ reply' = Said(Gate(panel_id, usr))

\* handle_user_select without its formed_teams.clear()
on_select_keeps_teams(panel_id, usr, values) ==
  /\ pc = "idle"
  /\ IF Gate(panel_id, usr) # "pass" THEN Refuse(panel_id, usr)
     ELSE /\ sessions_' = [Touched(sessions_, panel_id) EXCEPT
                             ![panel_id].selected_users = values]
          /\ reply' = Said("formteams")
  /\ UNCHANGED <<users_, history_, issued, posted, ref>>
  /\ NoCallFrame

\* on_select, action "select": handle_user_select
on_select_select(panel_id, usr, values) ==
  /\ pc = "idle"
  /\ IF Gate(panel_id, usr) # "pass" THEN Refuse(panel_id, usr)
     ELSE /\ sessions_' = [Touched(sessions_, panel_id) EXCEPT
                             ![panel_id].selected_users = values,
                             ![panel_id].formed_teams = <<>>]
          /\ reply' = Said("formteams")
  /\ UNCHANGED <<users_, history_, issued, posted, ref>>
  /\ NoCallFrame

\* on_select, action "choose": handle_match_choose
on_select_choose(panel_id, usr, hist_idx) ==
  /\ pc = "idle"
  /\ IF Gate(panel_id, usr) # "pass" THEN Refuse(panel_id, usr)
     ELSE IF hist_idx >= Len(history_)
     THEN /\ sessions_' = Touched(sessions_, panel_id)
          /\ reply' = Said("match not found")
     ELSE /\ sessions_' = [Touched(sessions_, panel_id) EXCEPT
                             ![panel_id].selected_match_index = hist_idx,
                             ![panel_id].formed_teams = history_[hist_idx + 1].teams,
                             ![panel_id].num_teams = Len(history_[hist_idx + 1].teams)]
          /\ reply' = Said("sethistory")
  /\ UNCHANGED <<users_, history_, issued, posted, ref>>
  /\ NoCallFrame

\* on_button, action "assign": handle_assign up to the form_teams call
on_button_assign(panel_id, usr) ==
  /\ pc = "idle"
  /\ IF Gate(panel_id, usr) # "pass"
     THEN /\ Refuse(panel_id, usr)
          /\ UNCHANGED <<participants, num_teams, pc, assign_ids, ref>>
     ELSE /\ sessions_' = Touched(sessions_, panel_id)
          /\ IF sessions_[panel_id].selected_users = <<>>
             THEN /\ reply' = Said("select at least one member")
                  /\ UNCHANGED <<participants, num_teams, pc, assign_ids, ref>>
             ELSE IF Len(sessions_[panel_id].selected_users) <
                       sessions_[panel_id].num_teams
             THEN /\ reply' = Said("not enough users")
                  /\ UNCHANGED <<participants, num_teams, pc, assign_ids, ref>>
             ELSE \E found \in {FoundUsers(sessions_[panel_id].selected_users, 1)} :
                    /\ assign_ids' = found
                    /\ participants' =
                         [i \in 1..Len(found) |-> users_[found[i]].point.v]
                    /\ num_teams' = sessions_[panel_id].num_teams
                    /\ pc' = "call"
                    /\ ref' = panel_id
                    /\ UNCHANGED reply
  /\ UNCHANGED <<players, best_asg, best_spread, gk, cur_asg, totals, counts, dk,
                 stack, result, seed, ndraw, run, first>>
  /\ UNCHANGED <<users_, history_, last, sess, th, overlap, issued, posted, clock>>

\* handle_assign after the form_teams call
assign_return ==
  /\ pc = "done"
  /\ ref # 0
  /\ sessions_' = IF result.ok
                  THEN [sessions_ EXCEPT ![ref].formed_teams =
                          [t \in 1..Len(result.teams) |->
                             [k \in 1..Len(result.teams[t]) |->
                                assign_ids[result.teams[t][k].id]]]]
                  ELSE sessions_
  /\ reply' = Said(IF result.ok THEN "formteams" ELSE result.error)
  /\ ref' = 0
  /\ assign_ids' = <<>>
  /\ participants' = <<>>
  /\ num_teams' = 0
  /\ pc' = "idle"
  /\ players' = <<>>
  /\ best_asg' = <<>>
  /\ best_spread' = 0
  /\ gk' = 0
  /\ cur_asg' = <<>>
  /\ totals' = <<>>
  /\ counts' = <<>>
  /\ dk' = 0
  /\ stack' = <<>>
  /\ result' = [ok |-> FALSE, error |-> "none"]
  /\ UNCHANGED <<seed, ndraw, run, first>>
  /\ UNCHANGED <<users_, history_, last, sess, th, overlap, issued, posted, clock>>

\* on_button, action "newmatch": handle_newmatch
on_button_newmatch(panel_id, usr) ==
  /\ pc = "idle"
  /\ IF Gate(panel_id, usr) # "pass"
     THEN /\ Refuse(panel_id, usr)
          /\ UNCHANGED history_
     ELSE /\ sessions_' = Touched(sessions_, panel_id)
          /\ IF sessions_[panel_id].formed_teams = <<>>
             THEN /\ reply' = Said("no teams formed")
                  /\ UNCHANGED history_
             ELSE /\ Len(history_) < MaxHist
                  /\ history_' = Append(history_,
                       MatchRecord(clock, sessions_[panel_id].formed_teams, <<>>))
                  /\ reply' = Said("match added")
  /\ UNCHANGED <<users_, issued, posted, ref>>
  /\ NoCallFrame

\* recompute.error().what(): the error of the apply_match_effect call that
\* stopped the replay
replay_error(r) == r.calls[Len(r.calls)].error

\* on_button, action "win": handle_win
on_button_win(panel_id, usr, team_idx) ==
  /\ pc = "idle"
  /\ IF Gate(panel_id, usr) # "pass"
     THEN /\ Refuse(panel_id, usr)
          /\ UNCHANGED <<users_, history_>>
     ELSE /\ sessions_' = Touched(sessions_, panel_id)
          /\ IF sessions_[panel_id].selected_match_index = -1
             THEN /\ reply' = Said("no selected match")
                  /\ UNCHANGED <<users_, history_>>
             ELSE IF \/ team_idx < 0
                     \/ team_idx >= Len(sessions_[panel_id].formed_teams)
             THEN /\ reply' = Said("invalid team index")
                  /\ UNCHANGED <<users_, history_>>
             ELSE IF sessions_[panel_id].selected_match_index >= Len(history_)
             THEN /\ reply' = Said("Match index out of range")
                  /\ UNCHANGED <<users_, history_>>
             ELSE IF ~ValidWinners(
                        history_[sessions_[panel_id].selected_match_index + 1].teams,
                        <<team_idx>>)
             THEN /\ reply' = Said("Invalid winning team index")
                  /\ UNCHANGED <<users_, history_>>
             ELSE /\ history_' =
                       [history_ EXCEPT
                          ![sessions_[panel_id].selected_match_index + 1]
                             .winning_teams = <<team_idx>>]
                  /\ \E r \in {recompute_ratings(users_, history_')} :
                       /\ users_' = r.users
                       /\ reply' = Said(IF r.ok THEN "winner updated" ELSE replay_error(r))
  /\ UNCHANGED <<issued, posted, ref>>
  /\ NoCallFrame

\* on_button, action "remove": handle_remove
on_button_remove(panel_id, usr) ==
  /\ pc = "idle"
  /\ IF Gate(panel_id, usr) # "pass"
     THEN /\ Refuse(panel_id, usr)
          /\ UNCHANGED <<users_, history_>>
     ELSE IF sessions_[panel_id].selected_match_index = -1
     THEN /\ sessions_' = Touched(sessions_, panel_id)
          /\ reply' = Said("no selected match")
          /\ UNCHANGED <<users_, history_>>
     ELSE IF sessions_[panel_id].selected_match_index >= Len(history_)
     THEN /\ sessions_' = Touched(sessions_, panel_id)
          /\ reply' = Said("Match index out of range")
          /\ UNCHANGED <<users_, history_>>
     ELSE /\ history_' =
               SubSeq(history_, 1, sessions_[panel_id].selected_match_index) \o
               SubSeq(history_, sessions_[panel_id].selected_match_index + 2,
                      Len(history_))
          /\ \E r \in {recompute_ratings(users_, history_')} :
               /\ users_' = r.users
               /\ IF r.ok
                  THEN /\ sessions_' = [Touched(sessions_, panel_id) EXCEPT
                                          ![panel_id].selected_match_index = -1]
                       /\ reply' = Said("match removed")
                  ELSE /\ sessions_' = Touched(sessions_, panel_id)
                       /\ reply' = Said(replay_error(r))
  /\ UNCHANGED <<issued, posted, ref>>
  /\ NoCallFrame

\* handle_end without its remove_session and without active = false
on_button_end_keeps_session(panel_id, usr) ==
  /\ pc = "idle"
  /\ IF Gate(panel_id, usr) # "pass"
     THEN /\ Refuse(panel_id, usr)
          /\ UNCHANGED <<pc, ref>>
     ELSE /\ sessions_' = Touched(sessions_, panel_id)
          /\ ref' = panel_id
          /\ pc' = "end_reply"
          /\ UNCHANGED reply
  /\ UNCHANGED <<participants, num_teams, players, best_asg, best_spread, gk,
                 cur_asg, totals, counts, dk, stack, result, seed, ndraw, run,
                 first>>
  /\ UNCHANGED <<users_, history_, last, sess, assign_ids, th, overlap, issued,
                 posted, clock>>

\* on_button, action "end": handle_end up to remove_session
on_button_end(panel_id, usr) ==
  /\ pc = "idle"
  /\ IF Gate(panel_id, usr) # "pass"
     THEN /\ Refuse(panel_id, usr)
          /\ UNCHANGED <<pc, ref>>
     ELSE /\ sessions_' = WithoutSessions(sessions_, {panel_id})
          /\ ref' = panel_id
          /\ pc' = "end_reply"
          /\ UNCHANGED reply
  /\ UNCHANGED <<participants, num_teams, players, best_asg, best_spread, gk,
                 cur_asg, totals, counts, dk, stack, result, seed, ndraw, run,
                 first>>
  /\ UNCHANGED <<users_, history_, last, sess, assign_ids, th, overlap, issued,
                 posted, clock>>

\* handle_end after remove_session: the message mentions sess.owner_id, read
\* through the reference taken by on_button; it replaces the panel message,
\* components included
handle_end_reply ==
  /\ pc = "end_reply"
  /\ \E owner_id \in (IF ref \in DOMAIN sessions_
                      THEN {sessions_[ref].owner_id} ELSE Snowflakes) :
       reply' = [text |-> "panel closed", mention |-> owner_id]
  /\ posted' = [posted EXCEPT ![ref].open = FALSE]
  /\ ref' = 0
  /\ pc' = "idle"
  /\ UNCHANGED <<participants, num_teams, players, best_asg, best_spread, gk,
                 cur_asg, totals, counts, dk, stack, result, seed, ndraw, run,
                 first>>
  /\ UNCHANGED <<users_, history_, last, sess, assign_ids, th, overlap,
                 sessions_, issued, clock>>

\* the panels whose message shows the components of one kind
PostedAs(type) == {p \in DOMAIN posted : posted[p].kind = type}

\* ------------------------------------------------------------------------
\* SpecSess: the panels of a roster of two users.  Eight panels were opened
\* and closed before; two more can be opened.  A click carries the id of a
\* posted panel and an action of a component that the panel's message
\* shows, or showed before the panel was closed.  The ratings are finite
\* and equal, so form_teams rejects no user and its search is pruned at the
\* root.
SessRoster == [id \in Ids |-> NewUser(Fin(100))]

SessTeams == {1}

SessSelect == {<<>>, <<1>>, <<1, 2>>}

\* no form_teams call and no handler under way, a manager that has handed
\* out max_sessions tokens
PanelsIdle ==
  /\ last = NoCall
  /\ sess = NoSession
  /\ assign_ids = <<>>
  /\ th = <<>>
  /\ overlap = FALSE
  /\ issued = max_sessions
  /\ reply = NoReply
  /\ ref = 0
  /\ participants = <<>>
  /\ num_teams = 0
  /\ pc = "idle"
  /\ players = <<>>
  /\ best_asg = <<>>
  /\ best_spread = 0
  /\ gk = 0
  /\ cur_asg = <<>>
  /\ totals = <<>>
  /\ counts = <<>>
  /\ dk = 0
  /\ stack = <<>>
  /\ result = [ok |-> FALSE, error |-> "none"]
  /\ seed = 0
  /\ ndraw = 0
  /\ run = 1
  /\ first = [ok |-> FALSE, error |-> "none"]

SessInit ==
  /\ users_ = SessRoster
  /\ history_ = <<>>
  /\ sessions_ = <<>>
  /\ posted = <<>>
  /\ clock = 0
  /\ PanelsIdle

SessNext ==
  \/ Tick
  \/ \E usr \in Owners, n \in SessTeams : cmd_formteams(usr, n)
  \/ \E panel_id \in PostedAs("formteams"), usr \in Clickers, values \in SessSelect :
       on_select_select(panel_id, usr, values)
  \/ \E panel_id \in PostedAs("formteams"), usr \in Clickers :
       on_button_assign(panel_id, usr)
  \/ Preprocess
  \/ GreedyStep
  \/ DfsPrune
  \/ Build
  \/ assign_return
  \/ \E panel_id \in PostedAs("formteams"), usr \in Clickers :
       on_button_newmatch(panel_id, usr)
  \/ \E panel_id \in DOMAIN posted, usr \in Clickers : on_button_end(panel_id, usr)
  \/ handle_end_reply

SpecSess == SessInit /\ [][SessNext]_vars

\* ------------------------------------------------------------------------
\* SpecHist: history panels over a history of three matches.  Two panels can
\* be opened; a click carries the id of a posted panel and the action of a
\* component of the history panel, or "remove", which handle_remove serves.
\* In the second roster user 2 has rating +infinity, which upsert_user
\* accepts: the replay of a match with user 2 fails.
HistRosters ==
  {SessRoster, [id \in Ids |-> NewUser(IF id = 1 THEN Fin(100) ELSE Inf)]}

HistHistory ==
  << MatchRecord(0, <<<<1>>, <<2>>>>, <<>>),
     MatchRecord(0, <<<<2>>, <<1>>>>, <<>>),
     MatchRecord(0, <<<<1, 2>>>>, <<>>) >>

HistInit ==
  /\ users_ \in HistRosters
  /\ history_ = HistHistory
  /\ sessions_ = <<>>
  /\ posted = <<>>
  /\ clock = 0
  /\ PanelsIdle

HistNext ==
  \/ \E usr \in Owners : cmd_sethistory(usr)
  \/ \E panel_id \in PostedAs("sethistory"), usr \in Clickers,
         hist_idx \in 0..Len(HistHistory) :
       on_select_choose(panel_id, usr, hist_idx)
  \/ \E panel_id \in PostedAs("sethistory"), usr \in Clickers, team_idx \in 0..MaxT :
       on_button_win(panel_id, usr, team_idx)
  \/ \E panel_id \in PostedAs("sethistory"), usr \in Clickers :
       on_button_remove(panel_id, usr)
  \/ \E panel_id \in PostedAs("sethistory"), usr \in Clickers :
       on_button_end(panel_id, usr)
  \/ handle_end_reply

SpecHist == HistInit /\ [][HistNext]_vars

\* ------------------------------------------------------------------------
\* SpecEvict: a manager that holds max_sessions sessions, each last accessed
\* at some instant up to now, when two more panels are opened.
EvictSessions(now) ==
  {[p \in 1..max_sessions |->
      [panel_session(1, "formteams", 1, <<>>, -1) EXCEPT !.last_accessed_at = f[p]]] :
     f \in [1..max_sessions -> {t \in Instants : t <= now}]}

EvictInit ==
  /\ users_ = SessRoster
  /\ history_ = <<>>
  /\ clock \in Instants
  /\ sessions_ \in EvictSessions(clock)
  /\ posted = [p \in 1..max_sessions |-> [kind |-> "formteams", open |-> TRUE]]
  /\ PanelsIdle

EvictNext ==
  \/ Tick
  \/ \E usr \in Owners, n \in SessTeams : cmd_formteams(usr, n)
  \/ \E panel_id \in PostedAs("formteams"), usr \in Clickers :
       on_button_newmatch(panel_id, usr)

SpecEvict == EvictInit /\ [][EvictNext]_vars

SpecReplay == ReplayInit /\ [][ReplayNext]_vars

\* --------------------------------------------------- form_teams claims
Returned == pc = "done" /\ result.ok

\* total rating of the participants that assignment a puts on team t
RECURSIVE AsgTotal(_, _, _)
AsgTotal(a, t, i) ==
  IF i > P THEN 0
  ELSE (IF a[i] = t THEN participants[i] ELSE 0) + AsgTotal(a, t, i + 1)

\* the assignments of the participants to num_teams teams, none empty
Partitions ==
  {a \in [1..P -> 1..num_teams] : \A t \in 1..num_teams : \E i \in 1..P : a[i] = t}

AsgSpread(a) == spread_of([t \in 1..num_teams |-> AsgTotal(a, t, 1)])

\* the minimum spread, by enumeration
BruteForceSpread ==
  CHOOSE sp \in {AsgSpread(a) : a \in Partitions} :
    \A a \in Partitions : sp <= AsgSpread(a)

ResultSpread ==
  spread_of([t \in 1..num_teams |-> total_point(result.teams[t], Len(result.teams[t]))])

\* C1: the spread of the returned teams is the minimum spread over all
\* assignments of the participants to num_teams non-empty teams.
C1_SpreadIsMinimum == Returned => ResultSpread = BruteForceSpread

\* C2: every returned team has at least one member.
C2_NoEmptyTeam ==
  Returned => \A t \in 1..Len(result.teams) : result.teams[t] # <<>>

\* number of member slots of the returned teams that hold participant id
ResultSlots(id) ==
  Cardinality({tk \in (1..Len(result.teams)) \X (1..P) :
                 /\ tk[2] <= Len(result.teams[tk[1]])
                 /\ result.teams[tk[1]][tk[2]].id = id})

\* C3: form_teams returns exactly num_teams teams, and every participant is
\* a member of exactly one of them, no one else is.
C3_ExactPartition ==
  Returned =>
    /\ Len(result.teams) = num_teams
    /\ \A id \in 1..P : ResultSlots(id) = 1
    /\ \A t \in 1..Len(result.teams) : \A k \in 1..Len(result.teams[t]) :
         /\ result.teams[t][k].id \in 1..P
         /\ result.teams[t][k].point = participants[result.teams[t][k].id]

C3_Witness ==
  /\ Returned
  /\ P >= 3
  /\ num_teams = 2
  /\ \A t \in 1..2 : Len(result.teams[t]) >= 1
  /\ \E i, j \in 1..P : participants[i] # participants[j]

\* ------------------------------------------------------- rating claims
\* number of history records that name id in some team
IsMemberOf(mr, id) ==
  \E t \in 1..Len(mr.teams) : \E k \in 1..Len(mr.teams[t]) : mr.teams[t][k] = id

\* id is on a team of mr whose index is in winning_teams
IsWinnerOf(mr, id) ==
  \E t \in 1..Len(mr.teams) :
    /\ InWinset(mr.winning_teams, t - 1)
    /\ \E k \in 1..Len(mr.teams[t]) : mr.teams[t][k] = id

RecordsWith(id) == Cardinality({n \in 1..Len(history_) : IsMemberOf(history_[n], id)})
RecordsWonBy(id) == Cardinality({n \in 1..Len(history_) : IsWinnerOf(history_[n], id)})

IsRecompute == last.op = "recompute_ratings"

\* C4: an apply_match_effect call that returns an error leaves the rating,
\* wins and games of every user as they were before the call.
C4_ApplyAtomic ==
  IsRecompute =>
    \A n \in 1..Len(last.calls) :
      ~last.calls[n].ok => last.calls[n].after = last.calls[n].before

\* C5: a recompute_ratings that fails leaves every user as before the call,
\* and one that succeeds has applied every record of the history.
C5_RecomputeAllOrNothing ==
  IsRecompute =>
    /\ ~last.ok => users_ = last.users
    /\ last.ok => /\ Len(last.calls) = Len(history_)
                  /\ \A i \in 1..Len(history_) :
                       \E n \in 1..Len(last.calls) : last.calls[n].idx = i

\* C6: the records are replayed in timestamp order, records of equal
\* timestamp in history order, and a successful replay applies them all.
C6_ChronologicalReplay ==
  IsRecompute =>
    /\ \A p, q \in 1..Len(last.calls) :
         p < q =>
           LET a == last.calls[p].idx
               b == last.calls[q].idx
           IN \/ history_[a].when < history_[b].when
              \/ history_[a].when = history_[b].when /\ a < b
    /\ last.ok => Len(last.calls) = Len(history_)

C6_Witness ==
  /\ IsRecompute /\ last.ok
  /\ Len(last.calls) >= 2
  /\ last.calls[1].idx > last.calls[2].idx

\* C7: a recompute_ratings that directly follows a recompute_ratings leaves
\* every user's rating, wins and games as the first one left them.
C7_RecomputeIdempotent ==
  [][IsRecompute => users_' = users_]_vars

C7_Witness ==
  /\ IsRecompute
  /\ last.users = users_
  /\ \E id \in DOMAIN users_ : users_[id].games > 0 /\ users_[id].point # users_[id].base_point

\* C8: after a successful recompute_ratings, games is the number of records
\* that name the user and wins the number of those where the user's team won.
C8_CountersMatchHistory ==
  (IsRecompute /\ last.ok) =>
    \A id \in DOMAIN users_ :
      /\ users_[id].games = RecordsWith(id)
      /\ users_[id].wins = RecordsWonBy(id)

\* sum of a sequence of doubles
RECURSIVE DSum(_, _)
DSum(s, k) == IF k > Len(s) THEN Fin(0) ELSE DAdd(s[k], DSum(s, k + 1))

CallDeltas(c) ==
  team_delta(c.before, history_[c.idx].teams, history_[c.idx].winning_teams)
CallSums(c) == team_sum(c.before, history_[c.idx].teams)

\* C9 as stated: in every apply_match_effect call on teams with valid
\* winners the team deltas sum to zero.
C9_ZeroSumAnyTeams ==
  IsRecompute =>
    \A n \in 1..Len(last.calls) : DSum(CallDeltas(last.calls[n]), 1) = Fin(0)

\* C9, amended: when every team's strength is finite, the team deltas of an
\* apply_match_effect call sum to zero.
C9_ZeroSumFinite ==
  IsRecompute =>
    \A n \in 1..Len(last.calls) :
      LET c == last.calls[n] IN
      (\A t \in 1..Len(CallSums(c)) : IsFinite(CallSums(c)[t]))
         => DSum(CallDeltas(c), 1) = Fin(0)

C9_Witness ==
  /\ IsRecompute
  /\ \E n \in 1..Len(last.calls) :
       LET c == last.calls[n] IN
       /\ Len(CallDeltas(c)) = 3
       /\ \A t \in 1..3 : IsFinite(CallSums(c)[t])
       /\ \E t \in 1..3 : CallDeltas(c)[t] # Fin(0)

\* a call whose winner set holds every team index
FullTie(c) ==
  /\ history_[c.idx].teams # <<>>
  /\ \A t \in 1..Len(history_[c.idx].teams) :
       InWinset(history_[c.idx].winning_teams, t - 1)

\* number of member slots of the record that hold id
Slots(mr, id) ==
  Cardinality({tk \in {<<t, k>> : t \in 1..Len(mr.teams), k \in 1..3} :
                 tk[2] <= Len(mr.teams[tk[1]]) /\ mr.teams[tk[1]][tk[2]] = id})

\* C10 as stated: in a full tie every team delta is zero and no rating
\* changes, whatever the team strengths (looked at in the calls that succeed).
C10_FullTieNoChange ==
  IsRecompute =>
    \A n \in 1..Len(last.calls) :
      LET c == last.calls[n] IN
      (FullTie(c) /\ c.ok) =>
        /\ \A t \in 1..Len(CallDeltas(c)) : CallDeltas(c)[t] = Fin(0)
        /\ \A id \in DOMAIN c.before : c.after[id].point = c.before[id].point

\* C10, amended: in a full tie between teams of equal finite strength every
\* team delta is zero, no rating changes, and the call adds one game and
\* one win per member slot.
EqualStrength(c) ==
  \A t \in 1..Len(CallSums(c)) :
    IsFinite(CallSums(c)[t]) /\ CallSums(c)[t] = CallSums(c)[1]

C10_EqualFullTieNoChange ==
  IsRecompute =>
    \A n \in 1..Len(last.calls) :
      LET c == last.calls[n] IN
      (FullTie(c) /\ EqualStrength(c)) =>
        /\ c.ok
        /\ \A t \in 1..Len(CallDeltas(c)) : CallDeltas(c)[t] = Fin(0)
        /\ \A id \in DOMAIN c.before :
             /\ c.after[id].point = c.before[id].point
             /\ c.after[id].games = c.before[id].games + Slots(history_[c.idx], id)
             /\ c.after[id].wins = c.before[id].wins + Slots(history_[c.idx], id)

C10_Witness ==
  /\ IsRecompute
  /\ \E n \in 1..Len(last.calls) :
       LET c == last.calls[n] IN
       /\ FullTie(c) /\ EqualStrength(c)
       /\ CallSums(c)[1].v > 0
       /\ \E id \in DOMAIN c.after : c.after[id].wins > c.before[id].wins

\* ------------------------------------------- form_teams: the sanity checks
\* C11: a call with no participants and num_teams >= 1 fails with an error of
\* its own, not the one that answers 0 < N < num_teams.
C11_EmptyRosterError ==
  (pc = "done" /\ P = 0 /\ num_teams >= 1) =>
    (~result.ok /\ result.error \notin {"users_not_enough", "teams_must_positive"})

\* C12: a call with num_teams < 1 fails with teams_must_positive, whatever
\* the participants are, and never gets past the checks; a call with
\* num_teams >= 1 and 0 < N < num_teams fails with users_not_enough; neither
\* returns a team list.
C12_SanityErrors ==
  /\ num_teams < 1 =>
       /\ pc \in {"call", "done"}
       /\ pc = "done" => result = [ok |-> FALSE, error |-> "teams_must_positive"]
  /\ (num_teams >= 1 /\ 0 < P /\ P < num_teams) =>
       /\ pc \in {"call", "done"}
       /\ pc = "done" => result = [ok |-> FALSE, error |-> "users_not_enough"]

C12_Witness ==
  /\ pc = "done"
  /\ num_teams < 1
  /\ P >= 2
  /\ result = [ok |-> FALSE, error |-> "teams_must_positive"]

\* ------------------------------------------------- form_teams: the seed
\* C13 as stated: for every value of config.seed, 0 included, the second of
\* two calls with the same participants, num_teams and seed returns what the
\* first returned.
C13_SeedDeterminism == (run = 2 /\ pc = "done") => result = first

\* C13, amended: for every value of config.seed other than 0, the second of
\* two calls with the same participants, num_teams and seed returns what the
\* first returned.
C13_NonzeroSeedDeterminism ==
  (run = 2 /\ pc = "done" /\ seed # 0) => result = first

C13_Witness ==
  /\ run = 2
  /\ pc = "done"
  /\ seed # 0
  /\ result.ok
  /\ result = first
  /\ num_teams = 3
  /\ \E i, j \in 1..P : i # j /\ participants[i] = participants[j]

\* ------------------------------------- apply_match_effect: the validation
\* C14: apply_match_effect on an empty team list fails with
\* teams_must_positive; on a non-empty team list with a winner index that is
\* negative or not below the number of teams it fails with "Invalid winner
\* index"; in both cases the roster is as it was before the call.
C14_ValidateFirst ==
  last.op = "apply_match_effect" =>
    /\ last.teams = <<>> =>
         /\ ~last.ok
         /\ last.error = "teams_must_positive"
         /\ users_ = last.users
    /\ (/\ last.teams # <<>>
        /\ \E n \in 1..Len(last.winners) :
             last.winners[n] < 0 \/ last.winners[n] >= Len(last.teams)) =>
         /\ ~last.ok
         /\ last.error = "Invalid winner index"
         /\ users_ = last.users

C14_Witness ==
  /\ last.op = "apply_match_effect"
  /\ last.error = "Invalid winner index"
  /\ Len(last.teams) = 2
  /\ last.winners = <<3>>
  /\ DOMAIN users_ = {1, 2}

\* ------------------------------------------------- match_service, as state
\* a double that is >= 0
NonNegative(x) == x.k = "inf" \/ (x.k = "fin" /\ x.v >= 0)

\* C15: after any sequence of upsert_user, remove_user, add_match,
\* set_match_winner, delete_match and recompute_ratings calls from an empty
\* roster and history, every user's point and base_point is >= 0.
C15_RatingsNonNegative ==
  \A id \in DOMAIN users_ :
    NonNegative(users_[id].point) /\ NonNegative(users_[id].base_point)

\* C16: after any such sequence of calls every user has 0 <= wins <= games,
\* also when a record names the user on more than one of its teams.
C16_WinsWithinGames ==
  \A id \in DOMAIN users_ :
    0 <= users_[id].wins /\ users_[id].wins <= users_[id].games

C16_Witness ==
  /\ last.op = "recompute_ratings"
  /\ last.ok
  /\ Len(history_) = 1
  /\ Len(history_[1].teams) = 3
  /\ 1 \in DOMAIN users_
  /\ users_[1].games = 2
  /\ users_[1].wins = 2

\* every winner index of the record is one of its teams
WinnersInRange(teams, winning_teams) ==
  \A n \in 1..Len(winning_teams) :
    0 <= winning_teams[n] /\ winning_teams[n] < Len(teams)

\* C17: after every call, every record of the history has its winner indices
\* within its teams; a set_match_winner call whose match index or one of
\* whose winner indices is out of range returns an error and leaves the
\* history as it was.
C17_WinnersStayInRange ==
  [][/\ \A i \in 1..Len(history_') :
          WinnersInRange(history_'[i].teams, history_'[i].winning_teams)
     /\ \A index \in 0..MaxHist, winning_teams \in SvcWinners :
          (/\ set_match_winner(index, winning_teams)
           /\ \/ index >= Len(history_)
              \/ ~WinnersInRange(history_[index + 1].teams, winning_teams))
          => (~last'.ok /\ history_' = history_)]_vars

C17_Witness ==
  /\ last = Did("set_match_winner", FALSE)
  /\ Len(history_) = 2
  /\ history_[1].winning_teams = <<0>>
  /\ Len(history_[2].teams) = 3

\* the ids of the members of hydrated teams, team by team
MemberIds(teams) ==
  [t \in 1..Len(teams) |-> [k \in 1..Len(teams[t]) |-> teams[t][k].id]]

\* every base rating is finite and every record has at least one team
WellFormed(us, h) ==
  /\ \A id \in DOMAIN us : IsFinite(us[id].base_point)
  /\ \A i \in 1..Len(h) : h[i].teams # <<>>

\* C19: a remove_user call that removes a user leaves every record of the
\* history as it was; match_by_index still returns every record, with the
\* removed id in the teams that named it; and a recompute_ratings made next
\* leaves the removed id off the roster and succeeds (on a roster of finite
\* base ratings and records that have teams).
C19_RemoveKeepsHistory ==
  [][\A id \in Ids :
       (remove_user(id) /\ id \in DOMAIN users_) =>
         /\ last'.ok
         /\ id \notin DOMAIN users_'
         /\ history_' = history_
         /\ \A i \in 0..(Len(history_) - 1) :
              \E m \in {match_by_index(i)'} :
                /\ m.found
                /\ MemberIds(m.record.teams) = history_[i + 1].teams
                /\ m.record.when = history_[i + 1].when
                /\ m.record.winning_teams = history_[i + 1].winning_teams
         /\ \E r \in {recompute_ratings(users_', history_')} :
              /\ DOMAIN r.users = DOMAIN users_'
              /\ WellFormed(users_', history_') => r.ok]_vars

C19_Witness ==
  /\ last = Did("remove_user", TRUE)
  /\ DOMAIN users_ = {2}
  /\ WellFormed(users_, history_)
  /\ Len(history_) = 2
  /\ \A i \in 1..2 : history_[i].teams # <<>> /\ history_[i].teams[1][1] = 1
  /\ history_[1].winning_teams = <<0>>

\* ------------------------------------------------------- the panel flow
\* the ids in the member slots of teams, as a set
TeamIds(teams) ==
  UNION {{teams[t][k] : k \in 1..Len(teams[t])} : t \in 1..Len(teams)}

\* number of member slots of teams that hold id
TeamSlots(teams, id) ==
  Cardinality({tk \in (1..Len(teams)) \X (1..Cardinality(PanelIds)) :
                 tk[2] <= Len(teams[tk[1]]) /\ teams[tk[1]][tk[2]] = id})

\* teams hold every id of ids once and no other id
PartitionOf(teams, ids) ==
  /\ TeamIds(teams) = {ids[i] : i \in 1..Len(ids)}
  /\ \A i \in 1..Len(ids) : TeamSlots(teams, ids[i]) = 1

\* C18 as stated: the teams of a match that handle_newmatch commits are a
\* partition of exactly the users selected in the panel at that moment, also
\* when /removeuser took a selected user off the roster before the assign.
C18_CommitsSelection ==
  [][handle_newmatch =>
       PartitionOf(history_'[Len(history_')].teams, sess.selected_users)]_vars

\* ------------------------------------------------- concurrent callbacks
\* C20: mutations of the roster and the history are single-writer: no
\* statement of a mutation or replay (set_match_winner, recompute_ratings,
\* upsert_user) runs while another callback is between the statements of its
\* own mutation, and the copy made for form_teams never reads the roster
\* while another callback is in the middle of a recompute_ratings.
C20_SingleWriter == ~overlap

\* ------------------------------------------------- the search of form_teams
\* the ways to place players[k], ..., players[P-1] (0-based k) on the teams
Completions(k) == [(k + 1)..P -> 0..(num_teams - 1)]

\* totals after the placements of c are added to tot, from player i (1-based) on
RECURSIVE CompletedTotals(_, _, _)
CompletedTotals(tot, c, i) ==
  IF i > P THEN tot
  ELSE CompletedTotals([tot EXCEPT ![c[i] + 1] = fadd(@, players[i].point)], c, i + 1)

\* counts after the placements of c are added to cnt
RECURSIVE CompletedCounts(_, _, _)
CompletedCounts(cnt, c, i) ==
  IF i > P THEN cnt
  ELSE CompletedCounts([cnt EXCEPT ![c[i] + 1] = @ + 1], c, i + 1)

\* C21: at every node dfs(k), k < P, lower_bound(k) is at most the spread of
\* every complete assignment that extends the current partial one and leaves
\* no team empty.
C21_LowerBoundValid ==
  (pc = "dfs_enter" /\ dk < P) =>
    \A c \in Completions(dk) :
      (\A t \in 1..num_teams : CompletedCounts(counts, c, dk + 1)[t] > 0) =>
        lower_bound_T(players, totals, num_teams, dk)
          <= num_teams * spread_of(CompletedTotals(totals, c, dk + 1))

\* the depth of the node dfs is at: the node entered, the node whose loop
\* runs, or the node that has just returned to the loop of its caller
NodeDepth ==
  IF pc = "dfs_enter" THEN dk
  ELSE IF pc = "dfs_loop" THEN stack[Len(stack)].k
  ELSE IF stack = <<>> THEN 0 ELSE stack[Len(stack)].k + 1

InDfs == pc \in {"dfs_enter", "dfs_loop", "dfs_return"}

EmptyCount == Cardinality({t \in 1..num_teams : counts[t] = 0})

\* totals[t] as the += of lines 187 leave it after the first d players
RECURSIVE PlacedTotal(_, _)
PlacedTotal(t, d) ==
  IF d = 0 THEN 0
  ELSE IF cur_asg[d] = t THEN fadd(PlacedTotal(t, d - 1), players[d].point)
  ELSE PlacedTotal(t, d - 1)

\* at least as many participants are left as teams are empty; a node where
\* the two are equal tries empty teams only; a complete assignment has no
\* empty team
FillsEmptyTeams ==
  /\ InDfs => P - NodeDepth >= EmptyCount
  /\ (pc = "dfs_loop" /\ P - NodeDepth = EmptyCount) =>
       \A i \in 1..Len(stack[Len(stack)].order) :
         counts[stack[Len(stack)].order[i] + 1] = 0
  /\ (pc = "dfs_enter" /\ dk = P) => \A t \in 1..num_teams : counts[t] > 0

\* cur_asg and counts are what the placements of the first NodeDepth players
\* made them: every placement of a branch that has returned is undone
RestoresPlacement ==
  InDfs =>
    /\ \A i \in 1..P : IF i <= NodeDepth THEN cur_asg[i] \in 0..(num_teams - 1)
                       ELSE cur_asg[i] = -1
    /\ \A t \in 1..num_teams :
         counts[t] = Cardinality({i \in 1..NodeDepth : cur_asg[i] = t - 1})

\* totals are what the += of the first NodeDepth players made them
RestoresTotals ==
  InDfs => \A t \in 1..num_teams : totals[t] = PlacedTotal(t - 1, NodeDepth)

\* C22 as stated: in the dfs of form_teams the participants left are never
\* fewer than the empty teams, a node where they are as many tries only empty
\* teams, a complete assignment has no empty team, and totals, counts and
\* cur_asg are back at their values of before the branch whenever a branch
\* has returned.
C22_FillAndRestore == FillsEmptyTeams /\ RestoresPlacement /\ RestoresTotals


\* ---------------------------------------------------------------- C24
\* C24: ratings and counters change only through upsert_user, remove_user and
\* recompute_ratings: a step of add_match, set_match_winner or delete_match
\* leaves the whole roster (rating, baseline, wins, games of every user) as
\* it was; add_match appends exactly one record, with empty winning_teams,
\* and returns the previous size of the history as the record's index.
C24_FrameEffect ==
  [][ /\ (users_' # users_ =>
            last'.op \in {"upsert_user", "remove_user", "recompute_ratings"})
      /\ (last'.op = "add_match" =>
            /\ Len(history_') = Len(history_) + 1
            /\ SubSeq(history_', 1, Len(history_)) = history_
            /\ history_'[Len(history_')].winning_teams = <<>>
            /\ last'.index = Len(history_)
            /\ users_' = users_) ]_vars

\* a second record was appended to a roster whose counters a replay has set
C24_Witness ==
  /\ last.op = "add_match"
  /\ Len(history_) = 2
  /\ last.index = 1
  /\ \E id \in DOMAIN users_ : users_[id].games > 0

\* ---------------------------------------------------------------- C25
\* an event of a team-formation panel: one of the four actions of its
\* components, clicked by usr
FormEvent(panel_id, usr) ==
  \/ \E values \in SessSelect : on_select_select(panel_id, usr, values)
  \/ on_button_assign(panel_id, usr)
  \/ on_button_newmatch(panel_id, usr)
  \/ on_button_end(panel_id, usr)

\* C25: a button or select event from a user who is not the owner of the
\* session is answered with the owner-only error and changes nothing: the
\* session map (selected users, formed teams, selected match index, active
\* flag and last-access time of every session), the roster and the history
\* are as before the event.
C25_OwnerOnly ==
  [][ \A panel_id \in DOMAIN sessions_ : \A usr \in Clickers :
        ( /\ Found(sessions_, panel_id)
          /\ usr # sessions_[panel_id].owner_id
          /\ FormEvent(panel_id, usr) )
        => /\ reply'.text = "panel_owner_only"
           /\ sessions_' = sessions_
           /\ users_' = users_
           /\ history_' = history_ ]_vars

\* ---------------------------------------------------------------- C26
\* C26: once End has been handled for a panel, the panel id never names a
\* session again, and every later event that carries it, from any user and
\* for any action, is answered with the panel-expired error and leaves the
\* sessions, the roster and the history as they were.
C26_EndedForGood ==
  [][ \A panel_id \in DOMAIN posted :
        ~posted[panel_id].open =>
          /\ panel_id \notin DOMAIN sessions_'
          /\ \A usr \in Clickers :
               FormEvent(panel_id, usr) =>
                 /\ reply'.text = "panel_expired"
                 /\ sessions_' = sessions_
                 /\ users_' = users_
                 /\ history_' = history_ ]_vars

\* a click on a closed panel was refused while another panel is live
C26_Witness ==
  /\ reply.text = "panel_expired"
  /\ \E panel_id \in DOMAIN posted : ~posted[panel_id].open
  /\ DOMAIN sessions_ # {}
  /\ history_ # <<>>

\* ---------------------------------------------------------------- C28
\* C28: handle_end reads no field of the session after remove_session has
\* erased it: whenever the handler is about to read sess.owner_id for its
\* reply, the entry behind the reference is still in sessions_.
C28_NoReadAfterErase == pc = "end_reply" => ref \in DOMAIN sessions_

\* ---------------------------------------------------------------- C30
\* the ids on a list of teams
TeamMembers(teams) ==
  UNION {{teams[t][k] : k \in 1..Len(teams[t])} : t \in 1..Len(teams)}

\* C30: in a team-formation panel every accepted select event clears
\* formed_teams; a new-match click appends a record only when formed_teams is
\* not empty, and the teams it appends are those of an assign made after the
\* latest select: their members are the users selected now.
C30_TeamsFromSelection ==
  [][ \A panel_id \in DOMAIN sessions_ : \A usr \in Clickers :
        /\ ( /\ Gate(panel_id, usr) = "pass"
             /\ \E values \in SessSelect : on_select_select(panel_id, usr, values) )
           => sessions_'[panel_id].formed_teams = <<>>
        /\ on_button_newmatch(panel_id, usr) =>
             IF /\ Gate(panel_id, usr) = "pass"
                /\ sessions_[panel_id].formed_teams # <<>>
             THEN /\ Len(history_') = Len(history_) + 1
                  /\ history_'[Len(history_')].teams = sessions_[panel_id].formed_teams
                  /\ TeamMembers(history_'[Len(history_')].teams) =
                       {sessions_[panel_id].selected_users[i] :
                          i \in 1..Len(sessions_[panel_id].selected_users)}
             ELSE history_' = history_ ]_vars

\* two matches were committed from different selections
C30_Witness ==
  /\ reply.text = "match added"
  /\ Len(history_) = 2
  /\ TeamMembers(history_[1].teams) # TeamMembers(history_[2].teams)

\* ---------------------------------------------------------------- C23
\* C23: a panel handler whose recompute_ratings fails rolls its history edit
\* back before it returns: handle_win and handle_remove leave the history
\* changed (a winner set, a record deleted) only when the recompute of the
\* changed history succeeded.
C23_RollbackOnFailure ==
  [][ history_' # history_ => recompute_ratings(users_, history_').ok ]_vars

\* ---------------------------------------------------------------- C27
\* C27: whenever handle_win calls set_match_winner(selected_match_index, ..),
\* the history has a record at that index and its teams are the teams of
\* sess.formed_teams, the match the panel shows, whatever the other panels
\* have done to the history in between.
C27_WinHitsShownMatch ==
  [][ \A panel_id \in DOMAIN sessions_ : \A usr \in Clickers : \A team_idx \in 0..MaxT :
        ( /\ on_button_win(panel_id, usr, team_idx)
          /\ Gate(panel_id, usr) = "pass"
          /\ sessions_[panel_id].selected_match_index # -1
          /\ team_idx < Len(sessions_[panel_id].formed_teams) )
        => /\ sessions_[panel_id].selected_match_index < Len(history_)
           /\ history_[sessions_[panel_id].selected_match_index + 1].teams =
                sessions_[panel_id].formed_teams ]_vars

\* ---------------------------------------------------------------- C29
\* C29: after a create_session call the manager holds at most max_sessions
\* sessions, the session just created is one of them (get_session finds
\* it), and every evicted session was last accessed no later than every
\* session that was kept.
C29_EvictsOldestKeepsNew ==
  [][ issued' = issued + 1 =>
        /\ Cardinality(DOMAIN sessions_') <= max_sessions
        /\ issued' \in DOMAIN sessions_'
        /\ reply'.text # "cannot create session"
        /\ \A e \in DOMAIN sessions_ \ DOMAIN sessions_' :
             \A k \in DOMAIN sessions_' \ {issued'} :
               sessions_[e].last_accessed_at <= sessions_[k].last_accessed_at ]_vars
====
